---- MODULE Spec2Model ----
(***************************************************************************)
(* Relationship-graph core of the aura repository: parse_graph_data and    *)
(* compare_graphs (utils.py), _extract_json_blob, to_canonical_graph,      *)
(* generate_plantuml and generate_plantuml_diff (vertex_end_to_end.py).    *)
(* Every operation is a pure function of its inputs.  Spec feeds two       *)
(* extraction payloads (old, new) through the graph operations;            *)
(* SpecResponse feeds the text of a model response to _extract_json_blob.  *)
(*                                                                         *)
(* Python values.  A JSON scalar is a tagged record (Str, Num, None), so   *)
(* that Python's == is equality of the records and str() / f-string        *)
(* formatting is the operator format.  A dict is a function whose domain   *)
(* is its key set, a list is a sequence.  The value domain holds strings,  *)
(* integers and null; floats (NaN included) and booleans are not modelled. *)
(***************************************************************************)
EXTENDS Integers, Sequences, FiniteSets, TLC

VARIABLES old_json, new_json, edits, pc, G_old, G_new, result,
          old_graph, new_graph, diff, plantuml, response, extracted,
          raw_id, clean, request, calls, summary

vars == <<old_json, new_json, edits, pc, G_old, G_new, result,
          old_graph, new_graph, diff, plantuml, response, extracted,
          raw_id, clean, request, calls, summary>>

\* Number of edits by which the environment may shape the two payloads.
MaxEdits == 3

-----------------------------------------------------------------------------
(* Python values *)

Str(s) == [t |-> "str", s |-> s, n |-> 0]
Num(n) == [t |-> "int", s |-> "", n |-> n]
None == [t |-> "NoneType", s |-> "", n |-> 0]

\* f"{v}": str(v) of a JSON scalar.
format(v) ==
    CASE v.t = "str" -> v.s
      [] v.t = "int" -> ToString(v.n)
      [] OTHER -> "None"

\* Truthiness of a scalar (if v: ...).
truthy(v) ==
    CASE v.t = "str" -> v.s # ""
      [] v.t = "int" -> v.n # 0
      [] OTHER -> FALSE

EmptyDict == <<>>

\* d.get(k, default)
get(d, k, default) == IF k \in DOMAIN d THEN d[k] ELSE default

\* d[k] = v on a dict: an existing key is overwritten.
setitem(d, k, v) == (k :> v) @@ d

\* del d[k]
delitem(d, k) == [x \in DOMAIN d \ {k} |-> d[x]]

\* The set of elements of a list.
Range(seq) == {seq[i] : i \in 1..Len(seq)}

\* A returned value, or a raised exception (value is then a placeholder).
Return(v) == [exc |-> "", value |-> v]
Raise(e, placeholder) == [exc |-> e, value |-> placeholder]

-----------------------------------------------------------------------------
(* Payload keys *)

K_entities == "entities"
K_relationships == "relationships"
K_verb == "verb"
K_optionality == "Optionality"
K_condition == "Condition for Relationship to be Active"
K_property == "Property of Object (part of condition)"
K_thresholds == "Thresholds"
K_frequency == "frequency"

\* The verb and the five qualifiers of a relationship, in annotation order.
FieldKeys ==
    <<K_verb, K_optionality, K_condition, K_property, K_thresholds, K_frequency>>

QualifierKeys == {K_optionality, K_condition, K_property, K_thresholds, K_frequency}

-----------------------------------------------------------------------------
(* json.loads of an object text.  The text is kept as its member list, in  *)
(* textual order; a repeated key keeps its last value.                     *)

RECURSIVE json_loads(_)
json_loads(text) ==
    IF text = <<>> THEN EmptyDict
    ELSE LET member == text[Len(text)]
         IN  (member[1] :> member[2]) @@ json_loads(SubSeq(text, 1, Len(text) - 1))

-----------------------------------------------------------------------------
(* networkx.DiGraph: nodes in insertion order with attribute dicts, and    *)
(* per node its successors in insertion order, each edge with one          *)
(* attribute dict.                                                         *)

DiGraph == [order |-> <<>>, node |-> <<>>, adj |-> <<>>, edge |-> <<>>]

nodes(G) == Range(G.order)

has_edge(G, u, v) == <<u, v>> \in DOMAIN G.edge

\* G.add_node(n, **attrs): a known node has its attributes updated.
add_node(G, n, attrs) ==
    IF n \in DOMAIN G.node
    THEN [G EXCEPT !.node[n] = attrs @@ @]
    ELSE [G EXCEPT !.order = Append(@, n),
                   !.node = (n :> attrs) @@ @,
                   !.adj = (n :> <<>>) @@ @]

\* Mutant of add_edge: an existing edge keeps the attributes it has.
add_edge_keep_first(G, u, v, attrs) ==
    LET Gu == IF u \in DOMAIN G.node THEN G ELSE add_node(G, u, EmptyDict)
        Gv == IF v \in DOMAIN Gu.node THEN Gu ELSE add_node(Gu, v, EmptyDict)
    IN  IF <<u, v>> \in DOMAIN Gv.edge
        THEN Gv
        ELSE [Gv EXCEPT !.adj[u] = Append(@, v),
                        !.edge = (<<u, v>> :> attrs) @@ @]

\* Variant of add_edge: a relationship between ids that are not both nodes
\* already is left out of the graph.
add_edge_known_endpoints(G, u, v, attrs) ==
    IF u \notin DOMAIN G.node \/ v \notin DOMAIN G.node
    THEN G
    ELSE IF <<u, v>> \in DOMAIN G.edge
         THEN [G EXCEPT !.edge[<<u, v>>] = attrs @@ @]
         ELSE [G EXCEPT !.adj[u] = Append(@, v),
                        !.edge = (<<u, v>> :> attrs) @@ @]

\* G.add_edge(u, v, **attrs): endpoints are created when unknown; an
\* existing edge (u, v) keeps its place and has its attributes updated.
add_edge(G, u, v, attrs) ==
    LET Gu == IF u \in DOMAIN G.node THEN G ELSE add_node(G, u, EmptyDict)
        Gv == IF v \in DOMAIN Gu.node THEN Gu ELSE add_node(Gu, v, EmptyDict)
    IN  IF <<u, v>> \in DOMAIN Gv.edge
        THEN [Gv EXCEPT !.edge[<<u, v>>] = attrs @@ @]
        ELSE [Gv EXCEPT !.adj[u] = Append(@, v),
                        !.edge = (<<u, v>> :> attrs) @@ @]

\* G.edges: for each node in insertion order, its out-edges in insertion order.
RECURSIVE edges_from(_, _)
edges_from(G, order) ==
    IF order = <<>> THEN <<>>
    ELSE LET u == Head(order)
         IN  [i \in 1..Len(G.adj[u]) |-> <<u, G.adj[u][i]>>] \o edges_from(G, Tail(order))

edges(G) == edges_from(G, G.order)

-----------------------------------------------------------------------------
(* utils.parse_graph_data *)

\* Variant of tooltip_text: a qualifier whose key is missing has no line.
tooltip_text_present_only(rel) ==
    "Verb: " \o format(get(rel, K_verb, Str("")))
    \o (IF K_optionality \in DOMAIN rel
        THEN "\n" \o "Optionality: " \o format(rel[K_optionality]) ELSE "")
    \o (IF K_condition \in DOMAIN rel
        THEN "\n" \o "Condition: " \o format(rel[K_condition]) ELSE "")
    \o (IF K_property \in DOMAIN rel
        THEN "\n" \o "Property: " \o format(rel[K_property]) ELSE "")
    \o (IF K_thresholds \in DOMAIN rel
        THEN "\n" \o "Thresholds: " \o format(rel[K_thresholds]) ELSE "")
    \o (IF K_frequency \in DOMAIN rel
        THEN "\n" \o "Frequency: " \o format(rel[K_frequency]) ELSE "")

\* "\n".join(tooltip_lines)
tooltip_text(rel) ==
    "Verb: " \o format(get(rel, K_verb, Str(""))) \o "\n" \o
    "Optionality: " \o format(get(rel, K_optionality, Str(""))) \o "\n" \o
    "Condition: " \o format(get(rel, K_condition, Str(""))) \o "\n" \o
    "Property: " \o format(get(rel, K_property, Str(""))) \o "\n" \o
    "Thresholds: " \o format(get(rel, K_thresholds, Str(""))) \o "\n" \o
    "Frequency: " \o format(get(rel, K_frequency, Str("")))

\* The attributes given to add_edge for one relationship.
edge_attrs(rel) ==
    [label |-> get(rel, K_verb, Str("")), title |-> Str(tooltip_text(rel))]

\* The loop over entities; entity["id"], ["name"], ["type"] raise KeyError.
RECURSIVE add_entities(_, _)
add_entities(G, entities) ==
    IF entities = <<>> THEN Return(G)
    ELSE LET entity == Head(entities)
         IN  IF {"id", "name", "type"} \subseteq DOMAIN entity
             THEN add_entities(
                    add_node(G, entity["id"],
                             [label |-> entity["name"], group |-> entity["type"]]),
                    Tail(entities))
             ELSE Raise("KeyError", DiGraph)

\* The loop over relationships; rel["subject_id"], ["object_id"] raise KeyError.
RECURSIVE add_relationships(_, _)
add_relationships(G, rels) ==
    IF rels = <<>> THEN Return(G)
    ELSE LET rel == Head(rels)
         IN  IF {"subject_id", "object_id"} \subseteq DOMAIN rel
             THEN add_relationships(
                    add_edge(G, rel["subject_id"], rel["object_id"], edge_attrs(rel)),
                    Tail(rels))
             ELSE Raise("KeyError", DiGraph)

\* An argument is a dict (kind "dict") or JSON text (kind "str").
loaded(relationship_json) ==
    IF relationship_json.kind = "str"
    THEN json_loads(relationship_json.text)
    ELSE relationship_json.dict

\* Mutant of parse_graph_data: the lists are read by subscript, not by get.
parse_graph_data_subscript(relationship_json) ==
    LET d == loaded(relationship_json)
    IN  IF K_entities \notin DOMAIN d \/ K_relationships \notin DOMAIN d
        THEN Raise("KeyError", DiGraph)
        ELSE LET withNodes == add_entities(DiGraph, d[K_entities])
             IN  IF withNodes.exc # "" THEN withNodes
                 ELSE add_relationships(withNodes.value, d[K_relationships])

parse_graph_data(relationship_json) ==
    LET d == loaded(relationship_json)
        withNodes == add_entities(DiGraph, get(d, K_entities, <<>>))
    IN  IF withNodes.exc # "" THEN withNodes
        ELSE add_relationships(withNodes.value, get(d, K_relationships, <<>>))

-----------------------------------------------------------------------------
(* utils.compare_graphs *)

\* Mutant of edge_changed: only an edge that G_old lacks counts.
edge_changed_missing_only(Go, Gn, e) == ~has_edge(Go, e[1], e[2])

\* Mutant of edge_changed: the old label is compared with the new title.
edge_changed_mixed_attrs(Go, Gn, e) ==
    IF has_edge(Go, e[1], e[2])
    THEN get(Go.edge[e], "label", None) # get(Gn.edge[e], "title", None)
    ELSE TRUE

\* Mutant of edge_changed: the titles are not compared.
edge_changed_label_only(Go, Gn, e) ==
    IF has_edge(Go, e[1], e[2])
    THEN get(Go.edge[e], "label", None) # get(Gn.edge[e], "label", None)
    ELSE TRUE

\* Variant of edge_changed: an edge G_old lacks counts only between nodes
\* that G_old has.
edge_changed_between_known(Go, Gn, e) ==
    IF has_edge(Go, e[1], e[2])
    THEN \/ get(Go.edge[e], "label", None) # get(Gn.edge[e], "label", None)
         \/ get(Go.edge[e], "title", None) # get(Gn.edge[e], "title", None)
    ELSE e[1] \in nodes(Go) /\ e[2] \in nodes(Go)

\* The test of lines 54-60 on one edge (u, v) of G_new.
edge_changed(Go, Gn, e) ==
    IF has_edge(Go, e[1], e[2])
    THEN LET old_data == Go.edge[e]
             new_data == Gn.edge[e]
         IN  \/ get(old_data, "label", None) # get(new_data, "label", None)
             \/ get(old_data, "title", None) # get(new_data, "title", None)
    ELSE TRUE

RECURSIVE changed_among(_, _, _)
changed_among(Go, Gn, es) ==
    IF es = <<>> THEN <<>>
    ELSE (IF edge_changed(Go, Gn, Head(es)) THEN <<Head(es)>> ELSE <<>>)
         \o changed_among(Go, Gn, Tail(es))

\* Mutant of compare_graphs: the edges of both graphs are walked.
compare_graphs_symmetric(Go, Gn) ==
    [changed_edges |-> changed_among(Go, Gn, edges(Gn)) \o changed_among(Gn, Go, edges(Go)),
     added_nodes |-> nodes(Gn) \ nodes(Go),
     removed_nodes |-> nodes(Go) \ nodes(Gn)]

\* Mutant of compare_graphs: the two set differences are swapped.
compare_graphs_swapped_nodes(Go, Gn) ==
    [changed_edges |-> changed_among(Go, Gn, edges(Gn)),
     added_nodes |-> nodes(Go) \ nodes(Gn),
     removed_nodes |-> nodes(Gn) \ nodes(Go)]

\* Variant of compare_graphs: an edge whose source node carries other
\* attributes than in G_old is reported as well.
compare_graphs_node_aware(Go, Gn) ==
    LET touched == SelectSeq(edges(Gn),
                     LAMBDA e : /\ ~edge_changed(Go, Gn, e)
                                /\ e[1] \in DOMAIN Go.node
                                /\ Go.node[e[1]] # Gn.node[e[1]])
    IN  [changed_edges |-> changed_among(Go, Gn, edges(Gn)) \o touched,
         added_nodes |-> nodes(Gn) \ nodes(Go),
         removed_nodes |-> nodes(Go) \ nodes(Gn)]

\* added_nodes and removed_nodes are list(set - set): duplicate-free, in no
\* particular order; they are kept as sets.
compare_graphs(Go, Gn) ==
    [changed_edges |-> changed_among(Go, Gn, edges(Gn)),
     added_nodes |-> nodes(Gn) \ nodes(Go),
     removed_nodes |-> nodes(Go) \ nodes(Gn)]

-----------------------------------------------------------------------------
(* Character-level string functions *)

AlnumChars ==
    {"a","b","c","d","e","f","g","h","i","j","k","l","m","n","o","p","q","r",
     "s","t","u","v","w","x","y","z","A","B","C","D","E","F","G","H","I","J",
     "K","L","M","N","O","P","Q","R","S","T","U","V","W","X","Y","Z",
     "0","1","2","3","4","5","6","7","8","9"}

UpperChars == <<"A","B","C","D","E","F","G","H","I","J","K","L","M",
                "N","O","P","Q","R","S","T","U","V","W","X","Y","Z">>
LowerChars == <<"a","b","c","d","e","f","g","h","i","j","k","l","m",
                "n","o","p","q","r","s","t","u","v","w","x","y","z">>

WhitespaceChars == {" ", "\t", "\n", "\r", "\f"}

\* ch.lower() of one character.
lower_char(ch) ==
    IF \E i \in 1..Len(UpperChars) : UpperChars[i] = ch
    THEN LowerChars[CHOOSE i \in 1..Len(UpperChars) : UpperChars[i] = ch]
    ELSE ch

\* s.lower()
RECURSIVE lower(_)
lower(s) == IF s = "" THEN "" ELSE lower_char(Head(s)) \o lower(Tail(s))

\* s.strip()
RECURSIVE lstrip(_)
lstrip(s) ==
    IF s # "" /\ Head(s) \in WhitespaceChars THEN lstrip(Tail(s)) ELSE s

RECURSIVE rstrip(_)
rstrip(s) ==
    IF s # "" /\ SubSeq(s, Len(s), Len(s)) \in WhitespaceChars
    THEN rstrip(SubSeq(s, 1, Len(s) - 1))
    ELSE s

strip(s) == rstrip(lstrip(s))

\* " ".join(parts)
RECURSIVE join_space(_)
join_space(parts) ==
    IF parts = <<>> THEN ""
    ELSE IF Len(parts) = 1 THEN parts[1]
    ELSE parts[1] \o " " \o join_space(Tail(parts))

\* "\n".join(lines)
RECURSIVE join_lines(_)
join_lines(lines) ==
    IF lines = <<>> THEN ""
    ELSE IF Len(lines) = 1 THEN lines[1]
    ELSE lines[1] \o "\n" \o join_lines(Tail(lines))

\* Variant of sanitize_chars that leaves unsupported characters out.
RECURSIVE sanitize_chars_drop(_)
sanitize_chars_drop(raw) ==
    IF raw = "" THEN ""
    ELSE (IF Head(raw) \in AlnumChars \/ Head(raw) \in {"_", "-"}
          THEN Head(raw) ELSE "") \o sanitize_chars_drop(Tail(raw))

\* sanitize_id on the characters of a str.
RECURSIVE sanitize_chars(_)
sanitize_chars(raw) ==
    IF raw = "" THEN ""
    ELSE (IF Head(raw) \in AlnumChars \/ Head(raw) \in {"_", "-"}
          THEN Head(raw) ELSE "_") \o sanitize_chars(Tail(raw))

-----------------------------------------------------------------------------
(* json.loads on text, character by character (the decoder the extractor   *)
(* calls).  A decoded value is its type and its canonical text: members    *)
(* and elements separated by ", " and ": ", a repeated key keeping its     *)
(* first position and its last value.  Exponents of numbers are not        *)
(* modelled.                                                               *)

JsonWhitespace == {" ", "\t", "\n", "\r"}
ControlChars == {"\t", "\n", "\r", "\f"}
EscapeChars == {"\"", "\\", "/", "b", "f", "n", "r", "t"}
Digits == {"0", "1", "2", "3", "4", "5", "6", "7", "8", "9"}

\* s[i:i+1] with i counted from 1: "" outside the text.
char_at(s, i) == IF i >= 1 /\ i <= Len(s) THEN SubSeq(s, i, i) ELSE ""

\* s.startswith(lit, i)
startswith(s, lit, i) ==
    i >= 1 /\ i + Len(lit) - 1 <= Len(s) /\ SubSeq(s, i, i + Len(lit) - 1) = lit

\* First index from i on whose character is not in chars.
RECURSIVE skip(_, _, _)
skip(s, i, chars) == IF char_at(s, i) \in chars THEN skip(s, i + 1, chars) ELSE i

NoValue == [kind |-> "", repr |-> ""]
Fail == [ok |-> FALSE, pos |-> 0, kind |-> "", repr |-> ""]
Parsed(pos, kind, repr) == [ok |-> TRUE, pos |-> pos, kind |-> kind, repr |-> repr]

\* The string whose opening quote precedes index i.
RECURSIVE scanstring(_, _, _)
scanstring(s, i, acc) ==
    LET ch == char_at(s, i)
    IN  IF ch = "" \/ ch \in ControlChars THEN Fail
        ELSE IF ch = "\"" THEN Parsed(i + 1, "str", "\"" \o acc \o "\"")
        ELSE IF ch = "\\"
             THEN IF char_at(s, i + 1) \in EscapeChars
                  THEN scanstring(s, i + 2, acc \o ch \o char_at(s, i + 1))
                  ELSE Fail
        ELSE scanstring(s, i + 1, acc \o ch)

\* -?(0|[1-9]\d*)(\.\d+)? at index i.
match_number(s, i) ==
    LET d == IF char_at(s, i) = "-" THEN i + 1 ELSE i
        e == IF char_at(s, d) = "0" THEN d + 1 ELSE skip(s, d, Digits)
        f == IF char_at(s, e) = "." /\ char_at(s, e + 1) \in Digits
             THEN skip(s, e + 1, Digits) ELSE e
    IN  IF e = d THEN Fail
        ELSE Parsed(f, IF f = e THEN "int" ELSE "float", SubSeq(s, i, f - 1))

\* dict[key] = value on the members decoded so far.
put_member(members, key, value) ==
    IF \E m \in 1..Len(members) : members[m][1] = key
    THEN [m \in 1..Len(members) |->
            IF members[m][1] = key THEN <<key, value>> ELSE members[m]]
    ELSE Append(members, <<key, value>>)

RECURSIVE join_comma(_)
join_comma(parts) ==
    IF parts = <<>> THEN ""
    ELSE IF Len(parts) = 1 THEN parts[1]
    ELSE parts[1] \o ", " \o join_comma(Tail(parts))

dict_repr(members) ==
    "{" \o join_comma([m \in 1..Len(members) |->
                         members[m][1] \o ": " \o members[m][2]]) \o "}"

list_repr(elements) == "[" \o join_comma(elements) \o "]"

Literals ==
    << <<"null", "NoneType">>, <<"true", "bool">>, <<"false", "bool">>,
       <<"NaN", "float">>, <<"Infinity", "float">>, <<"-Infinity", "float">> >>

RECURSIVE scan_once(_, _), JSONObject(_, _, _), JSONArray(_, _, _)

\* The value that starts at index i.
scan_once(s, i) ==
    LET ch == char_at(s, i)
    IN  IF ch = "\"" THEN scanstring(s, i + 1, "")
        ELSE IF ch = "{"
             THEN LET j == skip(s, i + 1, JsonWhitespace)
                  IN  IF char_at(s, j) = "}" THEN Parsed(j + 1, "dict", "{}")
                      ELSE JSONObject(s, j, <<>>)
        ELSE IF ch = "["
             THEN LET j == skip(s, i + 1, JsonWhitespace)
                  IN  IF char_at(s, j) = "]" THEN Parsed(j + 1, "list", "[]")
                      ELSE JSONArray(s, j, <<>>)
        ELSE IF \E l \in 1..Len(Literals) : startswith(s, Literals[l][1], i)
             THEN LET l == CHOOSE l \in 1..Len(Literals) : startswith(s, Literals[l][1], i)
                  IN  Parsed(i + Len(Literals[l][1]), Literals[l][2], Literals[l][1])
        ELSE match_number(s, i)

\* The members of an object from the key expected at index i on.
JSONObject(s, i, members) ==
    IF char_at(s, i) # "\"" THEN Fail
    ELSE LET key == scanstring(s, i + 1, "")
             colon == skip(s, key.pos, JsonWhitespace)
             value == scan_once(s, skip(s, colon + 1, JsonWhitespace))
             end == skip(s, value.pos, JsonWhitespace)
         IN  IF ~key.ok \/ char_at(s, colon) # ":" THEN Fail
             ELSE IF ~value.ok THEN Fail
             ELSE IF char_at(s, end) = "}"
                  THEN Parsed(end + 1, "dict",
                              dict_repr(put_member(members, key.repr, value.repr)))
             ELSE IF char_at(s, end) = ","
                  THEN JSONObject(s, skip(s, end + 1, JsonWhitespace),
                                  put_member(members, key.repr, value.repr))
             ELSE Fail

\* The elements of an array from the value expected at index i on.
JSONArray(s, i, elements) ==
    LET value == scan_once(s, i)
        end == skip(s, value.pos, JsonWhitespace)
    IN  IF ~value.ok THEN Fail
        ELSE IF char_at(s, end) = "]"
             THEN Parsed(end + 1, "list", list_repr(Append(elements, value.repr)))
        ELSE IF char_at(s, end) = ","
             THEN JSONArray(s, skip(s, end + 1, JsonWhitespace),
                            Append(elements, value.repr))
        ELSE Fail

\* json.loads(s): one value, white space around it, nothing else.
loads(s) ==
    LET value == scan_once(s, skip(s, 1, JsonWhitespace))
    IN  IF value.ok /\ skip(s, value.pos, JsonWhitespace) = Len(s) + 1
        THEN Return([kind |-> value.kind, repr |-> value.repr])
        ELSE Raise("JSONDecodeError", NoValue)

-----------------------------------------------------------------------------
(* _extract_json_blob.  The grave accent cannot be written in a string of *)
(* this language: the model's texts write the tilde for it, a character    *)
(* that is ordinary to the decoder and to the brace scan alike.            *)

Backquote == "~"
Fence == Backquote \o Backquote \o Backquote

\* Variant of fence_open for a pattern whose json tag is mandatory.
fence_open_tagged(s, i) ==
    IF ~startswith(s, Fence \o "json", i) THEN 0
    ELSE LET brace == skip(s, i + 7, WhitespaceChars)
         IN  IF char_at(s, brace) = "{" THEN brace ELSE 0

\* Fence(?:json)?\s*\{ from index i: the index of the brace, 0 without a match.
fence_open(s, i) ==
    IF ~startswith(s, Fence, i) THEN 0
    ELSE LET tag == IF startswith(s, "json", i + 3) THEN i + 7 ELSE i + 3
             brace == skip(s, tag, WhitespaceChars)
         IN  IF char_at(s, brace) = "{" THEN brace ELSE 0

\* \}\s*Fence at index q.
fence_close(s, q) ==
    char_at(s, q) = "}" /\ startswith(s, Fence, skip(s, q + 1, WhitespaceChars))

Closers(s, brace) == {q \in (brace + 1)..Len(s) : fence_close(s, q)}

Max(S) == CHOOSE x \in S : \A y \in S : y <= x
Min(S) == CHOOSE x \in S : \A y \in S : x <= y

NoMatch == [found |-> FALSE, group |-> "", end |-> 0]

\* The leftmost match of the fence pattern from index from on; the body
\* \{.*\} runs to the last closer when greedy, to the first otherwise.
fence_match(s, from, greedy) ==
    LET starts == {i \in from..Len(s) :
                     fence_open(s, i) # 0 /\ Closers(s, fence_open(s, i)) # {}}
    IN  IF starts = {} THEN NoMatch
        ELSE LET brace == fence_open(s, Min(starts))
                 q == IF greedy THEN Max(Closers(s, brace)) ELSE Min(Closers(s, brace))
             IN  [found |-> TRUE, group |-> SubSeq(s, brace, q),
                  end |-> skip(s, q + 1, WhitespaceChars) + 3]

\* re.findall(fence pattern with the body \{.*?\}, text, re.DOTALL)
RECURSIVE fence_findall(_, _)
fence_findall(s, from) ==
    LET m == fence_match(s, from, FALSE)
    IN  IF m.found THEN <<m.group>> \o fence_findall(s, m.end) ELSE <<>>

\* text.find(ch, from): 0 when absent.
find(s, ch, from) ==
    LET at == {i \in from..Len(s) : char_at(s, i) = ch}
    IN  IF at = {} THEN 0 ELSE Min(at)

\* The index at which the depth counted from start returns to zero, 0 if never.
RECURSIVE balanced_end(_, _, _)
balanced_end(s, idx, depth) ==
    IF idx > Len(s) THEN 0
    ELSE LET ch == char_at(s, idx)
             d == IF ch = "{" THEN depth + 1
                  ELSE IF ch = "}" THEN depth - 1 ELSE depth
         IN  IF d = 0 THEN idx ELSE balanced_end(s, idx + 1, d)

\* The balanced spans found by the scan that starts at the brace at start.
RECURSIVE brace_scan(_, _)
brace_scan(s, start) ==
    IF start = 0 THEN <<>>
    ELSE LET end == balanced_end(s, start, 0)
         IN  IF end = 0 THEN <<>>
             ELSE <<SubSeq(s, start, end)>> \o brace_scan(s, find(s, "{", end + 1))

candidates_of(text) == fence_findall(text, 1) \o brace_scan(text, find(text, "{", 1))

\* Variant of first_valid that falls back to an empty object.
RECURSIVE first_valid_default(_)
first_valid_default(cands) ==
    IF cands = <<>> THEN Return([kind |-> "dict", repr |-> "{}"])
    ELSE IF loads(Head(cands)).exc = "" THEN loads(Head(cands))
    ELSE first_valid_default(Tail(cands))

\* The first candidate that decodes.
RECURSIVE first_valid(_)
first_valid(cands) ==
    IF cands = <<>> THEN Raise("ValueError", NoValue)
    ELSE IF loads(Head(cands)).exc = "" THEN loads(Head(cands))
    ELSE first_valid(Tail(cands))

Extracted(r, step) == [exc |-> r.exc, value |-> r.value, step |-> step]

\* Variant of _extract_json_blob without the direct parse.
_extract_json_blob_scan_only(raw_text) ==
    LET text == strip(raw_text)
        fence == fence_match(text, 1, TRUE)
        fenced == loads(fence.group)
        rest == IF fence.found THEN fence.group ELSE text
    IN  IF fence.found /\ fenced.exc = "" THEN Extracted(fenced, "fence")
        ELSE Extracted(first_valid(candidates_of(rest)), "candidates")

_extract_json_blob(raw_text) ==
    LET text == strip(raw_text)
        direct == loads(text)
        fence == fence_match(text, 1, TRUE)
        fenced == loads(fence.group)
        rest == IF fence.found THEN fence.group ELSE text
    IN  IF direct.exc = "" THEN Extracted(direct, "direct")
        ELSE IF fence.found /\ fenced.exc = "" THEN Extracted(fenced, "fence")
        ELSE Extracted(first_valid(candidates_of(rest)), "candidates")

-----------------------------------------------------------------------------
(* vertex_end_to_end.to_canonical_graph *)

canonical_node(entity) ==
    [id |-> get(entity, "id", None),
     label |-> get(entity, "name", get(entity, "id", None)),
     type |-> get(entity, "type", Str("process"))]

canonical_edge(rel) ==
    [source |-> get(rel, "subject_id", None),
     target |-> get(rel, "object_id", None),
     relation |-> get(rel, K_verb, Str("")),
     condition |-> get(rel, K_condition, Str("")),
     optionality |-> get(rel, K_optionality, Str("")),
     frequency |-> get(rel, K_frequency, Str(""))]

EmptyGraph == [nodes |-> <<>>, edges |-> <<>>]

\* The relationships whose ordered pair no earlier relationship has.
RECURSIVE first_on_pair(_, _)
first_on_pair(rels, seen) ==
    IF rels = <<>> THEN <<>>
    ELSE LET pair == <<get(Head(rels), "subject_id", None), get(Head(rels), "object_id", None)>>
         IN  (IF pair \in seen THEN <<>> ELSE <<Head(rels)>>)
             \o first_on_pair(Tail(rels), seen \cup {pair})

\* Variant of to_canonical_graph: relationships on one ordered pair are
\* merged into the first of them, as edges of the parsed graph are.
to_canonical_graph_merged(relationship_json) ==
    IF relationship_json.kind = "str" THEN Raise("AttributeError", EmptyGraph)
    ELSE LET d == relationship_json.dict
             ents == get(d, K_entities, <<>>)
             rels == first_on_pair(get(d, K_relationships, <<>>), {})
         IN  Return([nodes |-> [i \in 1..Len(ents) |-> canonical_node(ents[i])],
                     edges |-> [i \in 1..Len(rels) |-> canonical_edge(rels[i])]])

\* A str argument has no .get: AttributeError.
to_canonical_graph(relationship_json) ==
    IF relationship_json.kind = "str" THEN Raise("AttributeError", EmptyGraph)
    ELSE LET d == relationship_json.dict
             ents == get(d, K_entities, <<>>)
             rels == get(d, K_relationships, <<>>)
         IN  Return([nodes |-> [i \in 1..Len(ents) |-> canonical_node(ents[i])],
                     edges |-> [i \in 1..Len(rels) |-> canonical_edge(rels[i])]])

-----------------------------------------------------------------------------
(* vertex_end_to_end.sanitize_id, _edge_line, generate_plantuml_diff *)

\* Iterating a value that is not a str raises TypeError.
sanitize_id(raw) ==
    IF raw.t = "str" THEN Return(sanitize_chars(raw.s)) ELSE Raise("TypeError", "")

\* Variant of label_parts that formats every qualifier, empty or not.
label_parts_placeholders(edge, prefix) ==
    LET relation == get(edge, "relation", Str(""))
        condition == get(edge, "condition", Str(""))
        optionality == get(edge, "optionality", Str(""))
        frequency == get(edge, "frequency", Str(""))
    IN  (IF prefix # "" THEN <<Str(prefix)>> ELSE <<>>)
        \o (IF truthy(relation) THEN <<relation>> ELSE <<>>)
        \o <<Str("(" \o format(condition) \o ")"),
             Str("[" \o format(optionality) \o "]"),
             Str("{" \o format(frequency) \o "}")>>

\* label_parts after the filter [p for p in label_parts if p].  The relation
\* is kept as the value it is; the other parts are strings.
label_parts(edge, prefix) ==
    LET relation == get(edge, "relation", Str(""))
        condition == get(edge, "condition", Str(""))
        optionality == get(edge, "optionality", Str(""))
        frequency == get(edge, "frequency", Str(""))
    IN  (IF prefix # "" THEN <<Str(prefix)>> ELSE <<>>)
        \o (IF truthy(relation) THEN <<relation>> ELSE <<>>)
        \o (IF truthy(condition) THEN <<Str("(" \o format(condition) \o ")")>> ELSE <<>>)
        \o (IF truthy(optionality) THEN <<Str("[" \o format(optionality) \o "]")>> ELSE <<>>)
        \o (IF truthy(frequency) THEN <<Str("{" \o format(frequency) \o "}")>> ELSE <<>>)

\* Variant of arrow_of that draws every arrow solid.
arrow_of_solid(color, dashed) ==
    IF color # "" THEN "-[" \o color \o "]->" ELSE "-->"

\* color is "" for None.
arrow_of(color, dashed) ==
    LET arrow == IF dashed THEN "..>" ELSE "-->"
    IN  IF color # "" THEN "-[" \o color \o "]" \o Tail(arrow) ELSE arrow

_edge_line(edge, color, dashed, prefix) ==
    IF "source" \notin DOMAIN edge \/ "target" \notin DOMAIN edge
    THEN Raise("KeyError", "")
    ELSE LET src == sanitize_id(edge["source"])
             dst == sanitize_id(edge["target"])
             parts == label_parts(edge, prefix)
         IN  IF src.exc # "" THEN src
             ELSE IF dst.exc # "" THEN dst
             ELSE IF \E i \in 1..Len(parts) : parts[i].t # "str"
             THEN Raise("TypeError", "")   \* " ".join of a non-str item
             ELSE LET label == strip(join_space([i \in 1..Len(parts) |-> parts[i].s]))
                      head == src.value \o " " \o arrow_of(color, dashed)
                                 \o " " \o dst.value
                  IN  Return(IF label # "" THEN head \o " : " \o label ELSE head)

\* Mutant of edge_key: the frequency is left out of the key.
edge_key_no_frequency(e) ==
    <<get(e, "source", None), get(e, "target", None),
      get(e, "relation", Str("")), get(e, "condition", Str("")),
      get(e, "optionality", Str("")), Str("")>>

\* Mutant of edge_key: an edge is keyed by its endpoints and relation alone.
edge_key_endpoints(e) ==
    <<get(e, "source", None), get(e, "target", None),
      get(e, "relation", Str("")), Str(""), Str(""), Str("")>>

edge_key(e) ==
    <<get(e, "source", None), get(e, "target", None),
      get(e, "relation", Str("")), get(e, "condition", Str("")),
      get(e, "optionality", Str("")), get(e, "frequency", Str(""))>>

\* {edge_key(e): e for e in edges}: a repeated key keeps its last record.
RECURSIVE edges_by_key(_)
edges_by_key(es) ==
    IF es = <<>> THEN EmptyDict
    ELSE LET e == es[Len(es)]
         IN  (edge_key(e) :> e) @@ edges_by_key(SubSeq(es, 1, Len(es) - 1))

\* Variant of setdefault_nodes: nodes_by_id[n["id"]] = n, the last record of
\* an id replaces the one kept, in its place.
RECURSIVE setdefault_nodes_overwrite(_, _)
setdefault_nodes_overwrite(kept, ns) ==
    IF ns = <<>> THEN kept
    ELSE setdefault_nodes_overwrite(
           IF \E i \in 1..Len(kept) : kept[i]["id"] = Head(ns)["id"]
           THEN [i \in 1..Len(kept) |->
                   IF kept[i]["id"] = Head(ns)["id"] THEN Head(ns) ELSE kept[i]]
           ELSE Append(kept, Head(ns)),
           Tail(ns))

\* nodes_by_id.setdefault(n["id"], n) over a node list: the first record of
\* an id is kept, in first-occurrence order.
RECURSIVE setdefault_nodes(_, _)
setdefault_nodes(kept, ns) ==
    IF ns = <<>> THEN kept
    ELSE setdefault_nodes(
           IF \E i \in 1..Len(kept) : kept[i]["id"] = Head(ns)["id"]
           THEN kept ELSE Append(kept, Head(ns)),
           Tail(ns))

ActorTypes == {"actor", "party", "role", "person"}
NodeTypes == {"system", "application", "repo", "trade_repository"}

\* Variant of node_line that compares the type as it is written.
node_line_case_sensitive(node) ==
    LET node_id == sanitize_id(node["id"])
        label == get(node, "label", node["id"])
        tval == IF truthy(get(node, "type", None)) THEN node["type"] ELSE Str("process")
    IN  IF node_id.exc # "" THEN node_id
        ELSE IF tval.t # "str" THEN Raise("AttributeError", "")
        ELSE LET shape == IF tval.s \in ActorTypes THEN "actor"
                          ELSE IF tval.s \in NodeTypes THEN "node"
                          ELSE "component"
             IN  Return(shape \o " \"" \o format(label) \o "\" as " \o node_id.value)

\* The declaration of one node.
node_line(node) ==
    LET node_id == sanitize_id(node["id"])
        label == get(node, "label", node["id"])
        tval == IF truthy(get(node, "type", None)) THEN node["type"] ELSE Str("process")
    IN  IF node_id.exc # "" THEN node_id
        ELSE IF tval.t # "str" THEN Raise("AttributeError", "")   \* .lower()
        ELSE LET ntype == lower(tval.s)
                 shape == IF ntype \in ActorTypes THEN "actor"
                          ELSE IF ntype \in NodeTypes THEN "node"
                          ELSE "component"
             IN  Return(shape \o " \"" \o format(label) \o "\" as " \o node_id.value)

\* The orders in which a set may be iterated.
Orderings(S) ==
    {o \in [1..Cardinality(S) -> S] : \A i, j \in 1..Cardinality(S) : o[i] = o[j] => i = j}

\* The first exception among a list of results, "" when there is none.
first_exc(rs) ==
    IF \E i \in 1..Len(rs) : rs[i].exc # ""
    THEN rs[CHOOSE i \in 1..Len(rs) :
              rs[i].exc # "" /\ \A j \in 1..(i - 1) : rs[j].exc = ""].exc
    ELSE ""

values_of(rs) == [i \in 1..Len(rs) |-> rs[i].value]

NoPlantuml == [declared |-> <<>>, statements |-> <<>>, lines |-> <<>>, text |-> ""]

\* generate_plantuml: title and scale are "" for None.  The statement of
\* an edge is composed as _edge_line composes it without colour or prefix.
generate_plantuml(graph, title, scale) ==
    LET ns == get(graph, "nodes", <<>>)
        es == get(graph, "edges", <<>>)
    IN  IF \E i \in 1..Len(ns) : "id" \notin DOMAIN ns[i]
        THEN Raise("KeyError", NoPlantuml)
        ELSE
        LET head == <<"@startuml">>
                    \o (IF title # "" THEN <<"title " \o title>> ELSE <<>>)
                    \o (IF scale # "" THEN <<"scale " \o scale>> ELSE <<>>)
                    \o <<"skinparam backgroundColor #FFFFFF",
                         "skinparam componentStyle rectangle",
                         "skinparam ArrowColor #555555",
                         "skinparam ArrowThickness 1">>
            decl == [i \in 1..Len(ns) |-> node_line(ns[i])]
            stmt == [i \in 1..Len(es) |-> _edge_line(es[i], "", FALSE, "")]
            exc == first_exc(decl \o stmt)
            lines == head \o values_of(decl) \o <<"">> \o values_of(stmt) \o <<"@enduml">>
        IN  IF exc # "" THEN Raise(exc, NoPlantuml)
            ELSE Return([declared |-> values_of(decl), statements |-> values_of(stmt),
                         lines |-> lines, text |-> join_lines(lines)])

NoDiff ==
    [common_keys |-> {}, added_keys |-> {}, removed_keys |-> {},
     common |-> <<>>, added |-> <<>>, removed |-> <<>>, declared |-> <<>>,
     lines |-> <<>>, text |-> ""]

\* Lines of a diff document that are neither declarations nor edge
\* statements, with a title and a scale: @startuml, title, scale, two
\* skinparams, the five legend lines, the blank line, @enduml.
DiffFixedLines == 12

\* generate_plantuml_diff, with the iteration orders of its three key sets
\* given: title and scale are "" for None.
generate_plantuml_diff(old_g, new_g, title, scale, common_order, added_order, removed_order) ==
    LET old_edges == edges_by_key(get(old_g, "edges", <<>>))
        new_edges == edges_by_key(get(new_g, "edges", <<>>))
        common_keys == DOMAIN old_edges \cap DOMAIN new_edges
        added_keys == DOMAIN new_edges \ DOMAIN old_edges
        removed_keys == DOMAIN old_edges \ DOMAIN new_edges
        all_nodes == get(old_g, "nodes", <<>>) \o get(new_g, "nodes", <<>>)
    IN  IF \E i \in 1..Len(all_nodes) : "id" \notin DOMAIN all_nodes[i]
        THEN Raise("KeyError", NoDiff)
        ELSE
        LET nodes_by_id == setdefault_nodes(<<>>, all_nodes)
            head == <<"@startuml">>
                    \o (IF title # "" THEN <<"title " \o title>> ELSE <<>>)
                    \o (IF scale # "" THEN <<"scale " \o scale>> ELSE <<>>)
                    \o <<"skinparam backgroundColor #FFFFFF",
                         "skinparam componentStyle rectangle",
                         "legend right",
                         "  <color:#555555>Common</color>",
                         "  <color:#008800>New</color>",
                         "  <color:#BB0000>Removed</color>",
                         "endlegend">>
            decl == [i \in 1..Len(nodes_by_id) |-> node_line(nodes_by_id[i])]
            common == [i \in 1..Len(common_order) |->
                         _edge_line(new_edges[common_order[i]], "", FALSE, "")]
            added == [i \in 1..Len(added_order) |->
                        _edge_line(new_edges[added_order[i]], "#008800", FALSE, "")]
            removed == [i \in 1..Len(removed_order) |->
                          _edge_line(old_edges[removed_order[i]], "#BB0000", TRUE, "REMOVED: ")]
            exc == first_exc(decl \o common \o added \o removed)
            lines == head \o values_of(decl) \o <<"">> \o values_of(common)
                     \o values_of(added) \o values_of(removed) \o <<"@enduml">>
        IN  IF exc # "" THEN Raise(exc, NoDiff)
            ELSE Return([common_keys |-> common_keys, added_keys |-> added_keys,
                         removed_keys |-> removed_keys,
                         common |-> values_of(common), added |-> values_of(added),
                         removed |-> values_of(removed), declared |-> values_of(decl),
                         lines |-> lines, text |-> join_lines(lines)])

-----------------------------------------------------------------------------
(* Inputs: the payloads the upstream extraction may deliver *)

Dict(d) == [kind |-> "dict", dict |-> d, text |-> <<>>]
Text(t) == [kind |-> "str", dict |-> EmptyDict, text |-> t]

Entity(id, name, type) == [id |-> Str(id), name |-> Str(name), type |-> Str(type)]

Relationship(u, v, verb, opt, cond, prop, thr, freq) ==
    ("subject_id" :> Str(u)) @@ ("object_id" :> Str(v)) @@ (K_verb :> verb)
    @@ (K_optionality :> opt) @@ (K_condition :> cond) @@ (K_property :> prop)
    @@ (K_thresholds :> thr) @@ (K_frequency :> freq)

\* Entities an extraction may list; one has an empty type, the last lacks
\* its type key.
EntityPool ==
    {Entity("E1", "XYZ Bank (LCB)", "organization"),
     Entity("E1", "XYZ Bank PLC", "Party"),
     Entity("E2", "Trade Repository", "system"),
     Entity("E5", "Prime Customer List", ""),
     [id |-> Str("E3"), name |-> Str("AWPR Report")]}

BaseRel(u, v) ==
    Relationship(u, v, Str("reports"), Str("Conditional"), Str("loans granted"),
                 Str("loan amount"), Str("15"), Str("weekly"))

\* Relationships an extraction may list; E4 is the id of no entity.
RelPool == {BaseRel("E1", "E2"), BaseRel("E2", "E1"), BaseRel("E1", "E4")}

\* Values a later extraction may give a field instead of the base value.
FieldEdits ==
    {<<K_verb, Str("submits")>>,
     <<K_verb, Num(7)>>,
     <<K_optionality, Str("Mandatory")>>,
     <<K_condition, Str("")>>,
     <<K_condition, Str("on request")>>,
     <<K_property, Str("list of loans")>>,
     <<K_thresholds, Str("10")>>,
     <<K_thresholds, Num(15)>>,
     <<K_frequency, Str("daily")>>,
     <<K_frequency, None>>}

RevisionBase ==
    Dict((K_entities :> <<Entity("E1", "XYZ Bank (LCB)", "organization"),
                          Entity("E2", "Trade Repository", "system")>>)
         @@ (K_relationships :> <<BaseRel("E1", "E2"), BaseRel("E2", "E1")>>))

with_entity(p, e) ==
    Dict(setitem(p.dict, K_entities, Append(get(p.dict, K_entities, <<>>), e)))

with_relationship(p, r) ==
    Dict(setitem(p.dict, K_relationships, Append(get(p.dict, K_relationships, <<>>), r)))

with_field(p, i, k, v) ==
    Dict([p.dict EXCEPT ![K_relationships][i] = setitem(@, k, v)])

without_field(p, i, k) ==
    Dict([p.dict EXCEPT ![K_relationships][i] = delitem(@, k)])

relationships_of(p) == get(loaded(p), K_relationships, <<>>)
entities_of(p) == get(loaded(p), K_entities, <<>>)

(* The concrete scenario: six entities and four relationships; the new     *)
(* payload adds E7 and E8, alters the Thresholds of relationship i and     *)
(* appends two relationships on pairs the old payload does not connect.    *)

ScenarioEntities ==
    <<Entity("E1", "Deutsche Bank (LCB)", "organization"),
      Entity("E2", "Central Bank of Sri Lanka", "organization"),
      Entity("E3", "Prime Customer List", "document"),
      Entity("E4", "AWPR Report", "document"),
      Entity("E5", "Short-term Loans to Prime Customers", "financial_instrument"),
      Entity("E6", "Internal Records", "document")>>

ScenarioAddedEntities ==
    <<Entity("E7", "Ten Lowest Interest Rate Loans", "financial_instrument"),
      Entity("E8", "Overdraft Facilities", "financial_instrument")>>

ScenarioRelationships ==
    <<Relationship("E1", "E4", Str("submits"), Str("Conditional"),
                   Str("no qualifying facilities"), Str("Nil report"),
                   Str("Rs. 10 million"), Str("weekly")),
      Relationship("E1", "E3", Str("provides"), Str("Conditional"),
                   Str("Central Bank requests lists"), Str("Updated list"),
                   Str("No specific threshold"), Str("periodically")),
      Relationship("E1", "E5", Str("excludes"), Str("Mandatory"),
                   Str("loans to government sector"), Str("Credit to government"),
                   Str("regardless of amount"), Str("continuously")),
      Relationship("E1", "E6", Str("maintains"), Str("Mandatory"),
                   Str("participates in AWPR reporting"), Str("Documented records"),
                   Str("All submissions"), Str("continuously"))>>

ScenarioNewRelationships ==
    <<Relationship("E1", "E7", Str("reports"), Str("Conditional"),
                   Str("qualifying loans granted"), Str("Short-term loans"),
                   Str("Above Rs. 15 million"), Str("weekly")),
      Relationship("E1", "E8", Str("reports"), Str("Conditional"),
                   Str("overdraft utilization changes"), Str("Maximum utilized amount"),
                   Str("Rs. 15 million"), Str("weekly")),
      Relationship("E2", "E1", Str("requests"), Str("Optional"),
                   Str(""), Str("Prime customer lists"), Str(""), Str("")),
      Relationship("E7", "E8", Str("complements"), Str(""), Str(""), Str(""),
                   Str(""), Str(""))>>

ScenarioThresholds == {Str("Rs. 15 million"), Str("")}

ScenarioOld ==
    Dict((K_entities :> ScenarioEntities) @@ (K_relationships :> ScenarioRelationships))

ScenarioNew(i, thr, a, b) ==
    Dict((K_entities :> ScenarioEntities \o ScenarioAddedEntities)
         @@ (K_relationships :>
               [ScenarioRelationships EXCEPT ![i] = setitem(@, K_thresholds, thr)]
               \o <<ScenarioNewRelationships[a], ScenarioNewRelationships[b]>>))

(* The stored vis.js form (keys nodes and edges) that the test passes to   *)
(* parse_graph_data.                                                       *)

StoredEdge(u, v, label, title) ==
    ("from" :> Str(u)) @@ ("to" :> Str(v)) @@ ("label" :> Str(label))
    @@ ("title" :> Str(title))

StoredNode(id, label, group) == [id |-> Str(id), label |-> Str(label), group |-> Str(group)]

StoredEdgeLists ==
    {<<>>,
     <<StoredEdge("E1", "E4", "submits", "Verb: submits Thresholds: Rs. 10 million")>>,
     <<StoredEdge("E1", "E4", "submits", "Verb: submits Thresholds: Rs. 15 million")>>,
     <<StoredEdge("E1", "E4", "files", "Verb: files Thresholds: Rs. 15 million"),
       StoredEdge("E1", "E7", "reports", "Verb: reports Thresholds: Rs. 15 million")>>}

StoredNodeLists ==
    {<<>>,
     <<StoredNode("E1", "Deutsche Bank (LCB)", "organization"),
       StoredNode("E4", "AWPR Report", "document")>>,
     <<StoredNode("E1", "Deutsche Bank", "organization"),
       StoredNode("E4", "AWPR Report", "document"),
       StoredNode("E7", "Ten Lowest Interest Rate Loans", "financial_instrument")>>}

\* The members of the object text, in textual order.
StoredMembers(es, ns) == <<<<"edges", es>>, <<"nodes", ns>>>>

Stored(kind, es, ns) ==
    IF kind = "str" THEN Text(StoredMembers(es, ns))
    ELSE Dict(json_loads(StoredMembers(es, ns)))

-----------------------------------------------------------------------------
(* State machine *)

NotRun(v) == [exc |-> "not run", value |-> v]

NoResult == [changed_edges |-> <<>>, added_nodes |-> {}, removed_nodes |-> {}]

Fresh ==
    /\ pc = "input"
    /\ G_old = NotRun(DiGraph)
    /\ G_new = NotRun(DiGraph)
    /\ result = NoResult
    /\ old_graph = NotRun(EmptyGraph)
    /\ new_graph = NotRun(EmptyGraph)
    /\ diff = NotRun(NoDiff)
    /\ plantuml = NotRun(NoPlantuml)

InitEmpty ==
    /\ old_json = Dict(EmptyDict)
    /\ new_json = Dict(EmptyDict)
    /\ edits = 0

InitScenario ==
    /\ old_json = ScenarioOld
    /\ \E i \in 1..Len(ScenarioRelationships), thr \in ScenarioThresholds,
          a, b \in 1..Len(ScenarioNewRelationships) :
          a < b /\ new_json = ScenarioNew(i, thr, a, b)
    /\ edits = MaxEdits

InitStored ==
    /\ \E kind \in {"str", "dict"}, oe, ne \in StoredEdgeLists, on, nn \in StoredNodeLists :
          /\ old_json = Stored(kind, oe, on)
          /\ new_json = Stored(kind, ne, nn)
    /\ edits = MaxEdits

\* Both extractions start from the same two entities and two relationships.
InitRevision ==
    /\ old_json = RevisionBase
    /\ new_json = RevisionBase
    /\ edits = 1

\* No model response is being read.
NotExtracted == [exc |-> "not run", value |-> NoValue, step |-> ""]

Response == <<response, extracted>>

NoResponse ==
    /\ response = <<>>
    /\ extracted = NotExtracted

\* No identifier is being sanitized and no summary is being asked for.
NoRequest == [text |-> "", context |-> None]
NoReply == [exc |-> "not run", value |-> ""]

Helpers == <<raw_id, clean, request, calls, summary>>

NoHelpers ==
    /\ raw_id = ""
    /\ clean = <<>>
    /\ request = NoRequest
    /\ calls = <<>>
    /\ summary = NoReply

Init ==
    /\ InitEmpty \/ InitRevision \/ InitScenario \/ InitStored
    /\ Fresh /\ NoResponse /\ NoHelpers

Pipeline == <<pc, G_old, G_new, result, old_graph, new_graph, diff, plantuml>>

\* The extraction lists one more entity in a payload.
AddEntity ==
    /\ pc = "input" /\ edits < MaxEdits
    /\ \E e \in EntityPool, side \in {"old", "new"} :
          /\ old_json' = IF side = "old" THEN with_entity(old_json, e) ELSE old_json
          /\ new_json' = IF side = "new" THEN with_entity(new_json, e) ELSE new_json
    /\ edits' = edits + 1
    /\ UNCHANGED Pipeline
    /\ UNCHANGED <<Response, Helpers>>

\* The extraction lists one more relationship in a payload.
AddRelationship ==
    /\ pc = "input" /\ edits < MaxEdits
    /\ \E r \in RelPool, side \in {"old", "new"} :
          /\ old_json' = IF side = "old" THEN with_relationship(old_json, r) ELSE old_json
          /\ new_json' = IF side = "new" THEN with_relationship(new_json, r) ELSE new_json
    /\ edits' = edits + 1
    /\ UNCHANGED Pipeline
    /\ UNCHANGED <<Response, Helpers>>

\* The new extraction gives one field of a relationship another value.
SetField ==
    /\ pc = "input" /\ edits < MaxEdits
    /\ \E i \in 1..Len(relationships_of(new_json)), kv \in FieldEdits :
          new_json' = with_field(new_json, i, kv[1], kv[2])
    /\ edits' = edits + 1
    /\ UNCHANGED <<old_json, Pipeline>>
    /\ UNCHANGED <<Response, Helpers>>

\* The new extraction leaves one field of a relationship out.
DropField ==
    /\ pc = "input" /\ edits < MaxEdits
    /\ \E i \in 1..Len(relationships_of(new_json)), k \in Range(FieldKeys) :
          /\ k \in DOMAIN relationships_of(new_json)[i]
          /\ new_json' = without_field(new_json, i, k)
    /\ edits' = edits + 1
    /\ UNCHANGED <<old_json, Pipeline>>
    /\ UNCHANGED <<Response, Helpers>>

\* G_old = parse_graph_data(old_json); G_new = parse_graph_data(new_json)
ParseGraphData ==
    /\ pc = "input"
    /\ G_old' = parse_graph_data(old_json)
    /\ G_new' = parse_graph_data(new_json)
    /\ pc' = "parsed"
    /\ UNCHANGED <<old_json, new_json, edits, result, old_graph, new_graph, diff, plantuml>>
    /\ UNCHANGED <<Response, Helpers>>

\* result = compare_graphs(G_old, G_new)
CompareGraphs ==
    /\ pc = "parsed" /\ G_old.exc = "" /\ G_new.exc = ""
    /\ result' = compare_graphs(G_old.value, G_new.value)
    /\ pc' = "compared"
    /\ UNCHANGED <<old_json, new_json, edits, G_old, G_new, old_graph, new_graph, diff, plantuml>>
    /\ UNCHANGED <<Response, Helpers>>

\* result = compare_graphs(G, G), for G either graph
CompareSelf ==
    /\ pc = "parsed"
    /\ \E side \in {"old", "new"} :
          LET G == IF side = "old" THEN G_old ELSE G_new
          IN  /\ G.exc = ""
              /\ result' = compare_graphs(G.value, G.value)
              /\ pc' = "compared_" \o side
    /\ UNCHANGED <<old_json, new_json, edits, G_old, G_new, old_graph, new_graph, diff, plantuml>>
    /\ UNCHANGED <<Response, Helpers>>

\* old_graph = to_canonical_graph(old_json); new_graph = to_canonical_graph(new_json)
ToCanonicalGraph ==
    /\ pc = "input"
    /\ old_graph' = to_canonical_graph(old_json)
    /\ new_graph' = to_canonical_graph(new_json)
    /\ pc' = "canonical"
    /\ UNCHANGED <<old_json, new_json, edits, G_old, G_new, result, diff, plantuml>>
    /\ UNCHANGED <<Response, Helpers>>

PageTitle == "Regulation"
DiffTitle == "Regulation (Diff)"
DefaultScale == "max 1200 width"

\* plantuml = generate_plantuml(new_graph, title=page_title)
GeneratePlantuml ==
    /\ pc = "canonical" /\ new_graph.exc = ""
    /\ plantuml' = generate_plantuml(new_graph.value, PageTitle, DefaultScale)
    /\ pc' = "plotted"
    /\ UNCHANGED <<old_json, new_json, edits, G_old, G_new, result, old_graph, new_graph,
                   diff>>
    /\ UNCHANGED <<Response, Helpers>>

\* diff = generate_plantuml_diff(old_graph, new_graph, title=...); the three
\* key sets are iterated in an order the run-time chooses.
GeneratePlantumlDiff ==
    /\ pc = "canonical" /\ old_graph.exc = "" /\ new_graph.exc = ""
    /\ LET og == old_graph.value
           ng == new_graph.value
           ok == DOMAIN edges_by_key(og.edges)
           nk == DOMAIN edges_by_key(ng.edges)
       IN  \E co \in Orderings(ok \cap nk), ao \in Orderings(nk \ ok),
              ro \in Orderings(ok \ nk) :
              diff' = generate_plantuml_diff(og, ng, DiffTitle, DefaultScale, co, ao, ro)
    /\ pc' = "rendered"
    /\ UNCHANGED <<old_json, new_json, edits, G_old, G_new, result, old_graph, new_graph,
                   plantuml>>
    /\ UNCHANGED <<Response, Helpers>>

\* run_pipeline builds both forms of each payload: the canonical graph
\* for the renderer and the parsed graph it returns.
ProjectAndParse ==
    /\ pc = "input"
    /\ old_graph' = to_canonical_graph(old_json)
    /\ new_graph' = to_canonical_graph(new_json)
    /\ G_old' = parse_graph_data(old_json)
    /\ G_new' = parse_graph_data(new_json)
    /\ pc' = "projected"
    /\ UNCHANGED <<old_json, new_json, edits, result, diff, plantuml>>
    /\ UNCHANGED <<Response, Helpers>>

Next ==
    \/ AddEntity
    \/ AddRelationship
    \/ SetField
    \/ DropField
    \/ ParseGraphData
    \/ CompareGraphs
    \/ CompareSelf
    \/ ToCanonicalGraph
    \/ GeneratePlantuml
    \/ GeneratePlantumlDiff
    \/ ProjectAndParse

Spec == Init /\ [][Next]_vars

-----------------------------------------------------------------------------
(* The model response read by _extract_json_blob.  call_vertex returns the *)
(* parts of the response joined; the parts are drawn from FragmentPool.    *)

\* Number of parts a response may have.
MaxParts == 4

FragmentPool ==
    {"{\"a\": 1}", "{\"k\": \"}\"}", "{\"b\": {\"c\": 2}}", "{oops}", "[1, 2]",
     "~~~json\n", "~~~", "\n", " as shown ", "{\"d\": "}

\* "".join(parts)
RECURSIVE join_parts(_)
join_parts(ps) == IF ps = <<>> THEN "" ELSE Head(ps) \o join_parts(Tail(ps))

InitResponse ==
    /\ InitEmpty
    /\ G_old = NotRun(DiGraph)
    /\ G_new = NotRun(DiGraph)
    /\ result = NoResult
    /\ old_graph = NotRun(EmptyGraph)
    /\ new_graph = NotRun(EmptyGraph)
    /\ diff = NotRun(NoDiff)
    /\ plantuml = NotRun(NoPlantuml)
    /\ pc = "response"
    /\ NoResponse /\ NoHelpers

\* The model emits one more part of its response.
EmitPart ==
    /\ pc = "response" /\ Len(response) < MaxParts
    /\ \E f \in FragmentPool : response' = Append(response, f)
    /\ UNCHANGED <<old_json, new_json, edits, Pipeline, extracted, Helpers>>

\* extracted = _extract_json_blob(raw) on the joined response
ExtractJsonBlob ==
    /\ pc = "response"
    /\ extracted' = _extract_json_blob(join_parts(response))
    /\ pc' = "extracted"
    /\ UNCHANGED <<old_json, new_json, edits, G_old, G_new, result,
                   old_graph, new_graph, diff, plantuml, response, Helpers>>

NextResponse ==
    \/ EmitPart
    \/ ExtractJsonBlob

SpecResponse == InitResponse /\ [][NextResponse]_vars

-----------------------------------------------------------------------------
(* An identifier sanitized by sanitize_id, character by character. *)

\* Number of characters an identifier may have.
MaxIdLen == 3

IdChars == {"a", "Z", "7", "_", "-", " ", "/", "(", "."}

\* The graph pipeline and the response reader are at rest.
AtRest ==
    /\ InitEmpty
    /\ G_old = NotRun(DiGraph)
    /\ G_new = NotRun(DiGraph)
    /\ result = NoResult
    /\ old_graph = NotRun(EmptyGraph)
    /\ new_graph = NotRun(EmptyGraph)
    /\ diff = NotRun(NoDiff)
    /\ plantuml = NotRun(NoPlantuml)
    /\ NoResponse

InitIdentifier ==
    /\ AtRest /\ NoHelpers
    /\ pc = "identifier"

\* The identifier of a record has one more character.
TypeChar ==
    /\ pc = "identifier" /\ Len(raw_id) < MaxIdLen
    /\ \E c \in IdChars : raw_id' = raw_id \o c
    /\ UNCHANGED <<old_json, new_json, edits, Pipeline, Response,
                   clean, request, calls, summary>>

\* clean holds sanitize_id(raw_id), then sanitize_id of that result.
SanitizeId ==
    /\ pc \in {"identifier", "sanitized"}
    /\ clean' = Append(clean, sanitize_id(Str(IF clean = <<>> THEN raw_id
                                              ELSE clean[Len(clean)].value)))
    /\ pc' = IF pc = "identifier" THEN "sanitized" ELSE "sanitized twice"
    /\ UNCHANGED <<old_json, new_json, edits, G_old, G_new, result, old_graph,
                   new_graph, diff, plantuml, Response, raw_id, request, calls, summary>>

NextIdentifier ==
    \/ TypeChar
    \/ SanitizeId

SpecIdentifier == InitIdentifier /\ [][NextIdentifier]_vars

-----------------------------------------------------------------------------
(* anthropic_llm.get_summary_with_context: one summary is asked for.  The  *)
(* model behind call_claude is the environment: it answers with a text or  *)
(* the request fails.                                                      *)

SummaryTexts ==
    {"This is a test regulation document.",
     "Banks report OTC positions weekly.",
     "Nil reports are submitted by email.",
     "Short codes identify the holder.",
     "",
     " LEI is mandatory.\n"}

\* context is None by default; callers pass a summary of the past year.
SummaryContexts ==
    {None, Str(""), Str("E1 reports to E2."), Str("Past year: monthly reports.")}

\* What bedrock.invoke_model gives: the text of the first content block, or
\* an error of the client.
ClaudeAnswers ==
    {Return("Mocked LLM Response"),
     Return("  **Regulation Summary:**\n1. Purpose\n"),
     Return("This is a test regulation document."),
     Return(""),
     Return("\n"),
     Raise("ClientError", "")}

\* call_claude(prompt) given the answer of the model: the text is stripped.
call_claude(prompt, answer) ==
    IF answer.exc # "" THEN answer ELSE Return(strip(answer.value))

\* The two f-strings of lines 44-86 and 88-126; their fixed text is
\* abridged to its opening sentence and its headings.
prompt_with_context(text, context) ==
    "\n            You are an AI assistant specialized in analyzing financial regulation documents to produce accurate, consistent, and structured summaries.\n\n"
    \o "            **Regulation Document:**\n            " \o text \o "\n\n"
    \o "            Reference of the past year regulation entity relationship is given for your reference below.\n\n"
    \o "            " \o format(context) \o "\n        "

prompt_without_context(text) ==
    "\n            You are an AI assistant specialized in analyzing financial regulation documents to produce accurate, consistent, and structured summaries.\n\n"
    \o "            Format the response with this structure:\n\n"
    \o "            **Regulation Document:**\n            " \o text \o "\n        "

\* Variant of get_summary_with_context: an empty reply is asked for again.
get_summary_with_context_retry(text, context, answer) ==
    LET prompt == IF truthy(context) THEN prompt_with_context(text, context)
                  ELSE prompt_without_context(text)
        reply == call_claude(prompt, answer)
        call == [prompt |-> prompt, reply |-> reply]
    IN  IF reply = Return("")
        THEN [calls |-> <<call, call>>, reply |-> reply]
        ELSE [calls |-> <<call>>, reply |-> reply]

\* get_summary_with_context(text, context): the calls of call_claude it
\* makes, each with its prompt and what it gave, and what it returns.
get_summary_with_context(text, context, answer) ==
    LET prompt == IF truthy(context) THEN prompt_with_context(text, context)
                  ELSE prompt_without_context(text)
        reply == call_claude(prompt, answer)
    IN  [calls |-> <<[prompt |-> prompt, reply |-> reply]>>, reply |-> reply]

InitSummary ==
    /\ AtRest /\ NoHelpers
    /\ pc = "summary"

\* A caller hands over a document and, or not, a context.
AskSummary ==
    /\ pc = "summary"
    /\ \E text \in SummaryTexts, context \in SummaryContexts :
          request' = [text |-> text, context |-> context]
    /\ pc' = "asked"
    /\ UNCHANGED <<old_json, new_json, edits, G_old, G_new, result, old_graph,
                   new_graph, diff, plantuml, Response, raw_id, clean, calls, summary>>

\* summary = get_summary_with_context(text, context)
GetSummaryWithContext ==
    /\ pc = "asked"
    /\ \E answer \in ClaudeAnswers :
          LET r == get_summary_with_context(request.text, request.context, answer)
          IN  /\ calls' = calls \o r.calls
              /\ summary' = r.reply
    /\ pc' = "summarized"
    /\ UNCHANGED <<old_json, new_json, edits, G_old, G_new, result, old_graph,
                   new_graph, diff, plantuml, Response, raw_id, clean, request>>

NextSummary ==
    \/ AskSummary
    \/ GetSummaryWithContext

SpecSummary == InitSummary /\ [][NextSummary]_vars

-----------------------------------------------------------------------------
(* Properties.  The vocabulary below restates what the claims speak of,    *)
(* from the payloads and the graphs' dictionaries, not from the operators  *)
(* under test.                                                             *)

EdgeSet(G) == DOMAIN G.edge
NodeSet(G) == DOMAIN G.node
PairOf(rel) == <<rel["subject_id"], rel["object_id"]>>
NoRepeats(seq) == \A i, j \in 1..Len(seq) : seq[i] = seq[j] => i = j

\* The relationships of a payload on one ordered pair, as positions.
PositionsOf(p, pair) ==
    {i \in 1..Len(relationships_of(p)) : PairOf(relationships_of(p)[i]) = pair}

\* The pairs for which each payload holds exactly one relationship.
SinglePairs ==
    {pair \in {PairOf(relationships_of(new_json)[i]) :
                  i \in 1..Len(relationships_of(new_json))} :
       /\ Cardinality(PositionsOf(old_json, pair)) = 1
       /\ Cardinality(PositionsOf(new_json, pair)) = 1}

OldRel(pair) == relationships_of(old_json)[CHOOSE i \in PositionsOf(old_json, pair) : TRUE]
NewRel(pair) == relationships_of(new_json)[CHOOSE i \in PositionsOf(new_json, pair) : TRUE]

\* The field as the code reads it: a missing key is the empty string.
Field(rel, k) == get(rel, k, Str(""))

Compared == pc = "compared"

(* C1: changed_edges of compare_graphs(G_old, G_new) is exactly the set of *)
(* ordered pairs that are edges of G_new and either are not edges of G_old *)
(* or carry a different label or title there; each is listed once.         *)
C1_ChangedEdgesExact ==
    Compared =>
        LET Go == G_old.value
            Gn == G_new.value
        IN  /\ Range(result.changed_edges) =
                   {e \in EdgeSet(Gn) :
                      \/ e \notin EdgeSet(Go)
                      \/ Go.edge[e].label # Gn.edge[e].label
                      \/ Go.edge[e].title # Gn.edge[e].title}
            /\ NoRepeats(result.changed_edges)

\* A comparison with a new edge, an altered edge and an unaltered edge.
C1_Witness ==
    /\ Compared
    /\ \E e \in Range(result.changed_edges) : e \notin EdgeSet(G_old.value)
    /\ \E e \in Range(result.changed_edges) : e \in EdgeSet(G_old.value)
    /\ \E e \in EdgeSet(G_new.value) : e \notin Range(result.changed_edges)

(* C2: changed_edges never holds a pair that is an edge of G_old but not   *)
(* of G_new: every reported pair is an edge of G_new.                      *)
C2_NoRemovedEdgeReported ==
    Compared =>
        /\ Range(result.changed_edges) \subseteq EdgeSet(G_new.value)
        /\ Range(result.changed_edges)
              \cap (EdgeSet(G_old.value) \ EdgeSet(G_new.value)) = {}

\* An edge was removed between two nodes that remain.
C2_Witness ==
    /\ Compared
    /\ \E e \in EdgeSet(G_old.value) \ EdgeSet(G_new.value) :
          e[1] \in NodeSet(G_new.value) /\ e[2] \in NodeSet(G_new.value)

\* What C3 asks of the graph parsed from payload p.
LastWriteWins(p, G) ==
    LET rels == relationships_of(p)
    IN  /\ NoRepeats(edges(G))
        /\ Range(edges(G)) = {PairOf(rels[i]) : i \in 1..Len(rels)}
        /\ \A i \in 1..Len(rels) :
              (\A j \in (i + 1)..Len(rels) : PairOf(rels[j]) # PairOf(rels[i]))
              => /\ G.edge[PairOf(rels[i])].label = Field(rels[i], K_verb)
                 /\ G.edge[PairOf(rels[i])].title = Str(tooltip_text(rels[i]))

(* C3: a graph built by parse_graph_data has one edge per ordered          *)
(* (subject_id, object_id) pair of its payload, carrying the label and     *)
(* annotation of the last relationship listed for that pair.               *)
C3_OneEdgePerPairLastWins ==
    pc = "parsed" =>
        /\ G_old.exc = "" => LastWriteWins(old_json, G_old.value)
        /\ G_new.exc = "" => LastWriteWins(new_json, G_new.value)

\* A payload lists two relationships on one pair with different data.
C3_Witness ==
    /\ pc = "parsed" /\ G_new.exc = ""
    /\ \E i, j \in 1..Len(relationships_of(new_json)) :
          /\ i < j
          /\ PairOf(relationships_of(new_json)[i]) = PairOf(relationships_of(new_json)[j])
          /\ edge_attrs(relationships_of(new_json)[i])
               # edge_attrs(relationships_of(new_json)[j])

(* C4: added_nodes are the node ids of G_new that G_old lacks,             *)
(* removed_nodes those of G_old that G_new lacks; the two are disjoint.    *)
C4_AddedRemovedNodes ==
    Compared =>
        /\ result.added_nodes = NodeSet(G_new.value) \ NodeSet(G_old.value)
        /\ result.removed_nodes = NodeSet(G_old.value) \ NodeSet(G_new.value)
        /\ result.added_nodes \cap result.removed_nodes = {}

\* Nodes were added and nodes were removed, and a node stayed.
C4_Witness ==
    /\ Compared
    /\ result.added_nodes # {}
    /\ result.removed_nodes # {}
    /\ NodeSet(G_old.value) \cap NodeSet(G_new.value) # {}

EntityIds(p) == {entities_of(p)[i]["id"] : i \in 1..Len(entities_of(p))}
ScenarioIds(n) == {Str("E" \o ToString(i)) : i \in 1..n}

\* The position of the one relationship of the scenario that was altered.
AlteredPositions ==
    {i \in 1..Len(relationships_of(old_json)) :
       relationships_of(new_json)[i] # relationships_of(old_json)[i]}

\* The payloads are those of the scenario: E1..E6 and four relationships;
\* then E7 and E8 more, one relationship altered in its Thresholds only and
\* two relationships more, on pairs the old payload does not connect.
IsScenario ==
    LET ro == relationships_of(old_json)
        rn == relationships_of(new_json)
    IN  /\ EntityIds(old_json) = ScenarioIds(6)
        /\ EntityIds(new_json) = ScenarioIds(8)
        /\ Len(ro) = 4 /\ Len(rn) = 6
        /\ NoRepeats([i \in 1..Len(rn) |-> PairOf(rn[i])])
        /\ Cardinality(AlteredPositions) = 1
        /\ \A i \in AlteredPositions :
              /\ rn[i][K_thresholds] # ro[i][K_thresholds]
              /\ delitem(rn[i], K_thresholds) = delitem(ro[i], K_thresholds)
        /\ \A i \in 5..6, j \in 1..4 : PairOf(rn[i]) # PairOf(ro[j])

(* C6: in the scenario compare_graphs reports added_nodes = {E7, E8}, no   *)
(* removed node, and the altered relationship's pair and both new          *)
(* relationships' pairs among the changed edges.                           *)
C6_ConcreteScenario ==
    (Compared /\ IsScenario) =>
        LET rn == relationships_of(new_json)
        IN  /\ result.added_nodes = {Str("E7"), Str("E8")}
            /\ result.removed_nodes = {}
            /\ \A i \in AlteredPositions \cup {5, 6} :
                  PairOf(rn[i]) \in Range(result.changed_edges)

C6_Witness == Compared /\ IsScenario

\* The payload has neither an entities nor a relationships key.
LacksBothKeys(p) ==
    K_entities \notin DOMAIN loaded(p) /\ K_relationships \notin DOMAIN loaded(p)

IsEmptyGraph(G) == G.exc = "" /\ G.value.order = <<>> /\ EdgeSet(G.value) = {}

(* C7: payloads with neither an entities nor a relationships key parse     *)
(* without error to graphs with no node and no edge, and their comparison  *)
(* reports no changed edge.                                                *)
C7_MissingKeysGiveEmptyGraphs ==
    /\ (pc = "parsed" /\ LacksBothKeys(old_json)) => IsEmptyGraph(G_old)
    /\ (pc = "parsed" /\ LacksBothKeys(new_json)) => IsEmptyGraph(G_new)
    /\ (Compared /\ LacksBothKeys(old_json) /\ LacksBothKeys(new_json))
          => result.changed_edges = <<>>

\* Two stored-form texts with different, non-empty edge lists were compared.
C7_Witness ==
    /\ Compared
    /\ old_json.kind = "str" /\ new_json.kind = "str"
    /\ LacksBothKeys(old_json) /\ LacksBothKeys(new_json)
    /\ loaded(old_json)["edges"] # <<>>
    /\ loaded(new_json)["edges"] # <<>>
    /\ loaded(old_json)["edges"] # loaded(new_json)["edges"]
    /\ loaded(old_json)["nodes"] # loaded(new_json)["nodes"]

Rendered == pc = "rendered" /\ diff.exc = ""

\* The key the tuple-set diff is specified on, read from a payload relationship.
KeyOfRel(rel) ==
    <<get(rel, "subject_id", None), get(rel, "object_id", None), Field(rel, K_verb),
      Field(rel, K_condition), Field(rel, K_optionality), Field(rel, K_frequency)>>

\* The same key, read from a canonical edge record.
KeyOfEdge(e) == <<e.source, e.target, e.relation, e.condition, e.optionality, e.frequency>>

\* The relationships of the pair differ in one of the fields ks.
Differ(pair, ks) == \E k \in ks : Field(OldRel(pair), k) # Field(NewRel(pair), k)

RemovedPlusAdded(pair) ==
    /\ KeyOfRel(OldRel(pair)) \in diff.value.removed_keys
    /\ KeyOfRel(NewRel(pair)) \in diff.value.added_keys
    /\ KeyOfRel(NewRel(pair)) \notin diff.value.common_keys

KeyQualifiers == {K_condition, K_optionality, K_frequency}

(* C8 as stated: a relationship that differs from its old counterpart in   *)
(* any of the five qualifiers is reported as one removed plus one added    *)
(* entry and never as a common edge.                                       *)
C8_AnyQualifierSplits ==
    Rendered => \A pair \in SinglePairs :
                   Differ(pair, QualifierKeys) => RemovedPlusAdded(pair)

(* C8 as amended: a difference in condition, optionality or frequency      *)
(* gives one removed plus one added entry; a relationship that differs     *)
(* from its counterpart in property or thresholds only is a common edge.   *)
C8_KeyQualifierSplits ==
    Rendered => \A pair \in SinglePairs :
        /\ Differ(pair, KeyQualifiers) => RemovedPlusAdded(pair)
        /\ ~Differ(pair, KeyQualifiers \cup {K_verb})
             => /\ KeyOfRel(NewRel(pair)) \in diff.value.common_keys
                /\ KeyOfRel(NewRel(pair)) \notin diff.value.added_keys
                /\ KeyOfRel(OldRel(pair)) \notin diff.value.removed_keys

\* A diff was rendered of a relationship altered in a qualifier of the key.
C8_Witness ==
    /\ Rendered
    /\ \E pair \in SinglePairs : Differ(pair, KeyQualifiers)

(* C9: every key among the old or new edges falls in exactly one of the    *)
(* classes common (in both graphs), added (new only), removed (old only),  *)
(* and one edge statement is emitted per key; identical graphs give no     *)
(* added and no removed key and every key common.                          *)
C9_ThreeClassesOneStatementPerKey ==
    Rendered =>
        LET d == diff.value
            oldKeys == {KeyOfEdge(e) : e \in Range(old_graph.value.edges)}
            newKeys == {KeyOfEdge(e) : e \in Range(new_graph.value.edges)}
        IN  /\ d.common_keys = oldKeys \cap newKeys
            /\ d.added_keys = newKeys \ oldKeys
            /\ d.removed_keys = oldKeys \ newKeys
            /\ Len(d.common) = Cardinality(oldKeys \cap newKeys)
            /\ Len(d.added) = Cardinality(newKeys \ oldKeys)
            /\ Len(d.removed) = Cardinality(oldKeys \ newKeys)
            /\ Len(d.lines) = Len(d.declared) + Cardinality(oldKeys \cup newKeys)
                                + DiffFixedLines
            /\ old_graph.value = new_graph.value
                 => d.added_keys = {} /\ d.removed_keys = {} /\ d.common_keys = newKeys

\* A diff with common, added and removed keys.
C9_Witness ==
    /\ Rendered
    /\ diff.value.common_keys # {}
    /\ diff.value.added_keys # {}
    /\ diff.value.removed_keys # {}

(* C10 as stated: when each payload holds one relationship for a pair and  *)
(* the two differ in the verb or in any of the five qualifiers, the pair   *)
(* is among the changed edges.                                             *)
C10_EveryFieldChangeDetected ==
    Compared => \A pair \in SinglePairs :
                   Differ(pair, Range(FieldKeys)) => pair \in Range(result.changed_edges)

-----------------------------------------------------------------------------
(* Properties of _extract_json_blob, stated on the response read. *)

HasRead == pc = "extracted"
RawText == join_parts(response)

\* A returned value that is the object whose text is t.
ReturnsObjectOf(t) ==
    /\ extracted.exc = ""
    /\ extracted.value = [kind |-> "dict", repr |-> scan_once(t, 1).repr]

\* t is the text of one JSON object.
IsObjectText(t) == char_at(t, 1) = "{" /\ scan_once(t, 1).ok /\ scan_once(t, 1).pos = Len(t) + 1

\* Indices of the text at which a well-formed JSON object starts.
EmbeddedAt(text) ==
    {i \in 1..Len(text) : char_at(text, i) = "{" /\ scan_once(text, i).ok}

ProseParts == {" as shown ", "\n"}
FenceOpeners == {Fence \o "json\n", Fence}

\* C11: the call returns the leftmost well-formed JSON object embedded in
\* the text, and raises only when the text embeds none.
C11_FirstEmbeddedObject ==
    HasRead =>
        IF EmbeddedAt(RawText) = {}
        THEN extracted.exc # ""
        ELSE /\ extracted.exc = ""
             /\ extracted.value =
                    [kind |-> "dict",
                     repr |-> scan_once(RawText, Min(EmbeddedAt(RawText))).repr]

FencedAt(i) ==
    /\ i > 1 /\ i < Len(response)
    /\ IsObjectText(response[i])
    /\ response[i - 1] \in FenceOpeners
    /\ response[i + 1] = Fence
    /\ \A j \in 1..Len(response) : j \notin (i - 1)..(i + 1) => response[j] \in ProseParts

\* C13: an object text in a fenced block, tagged json or not, prose around
\* the block or not, gives what the object text alone gives.
C13_FencedBodyAsAlone ==
    HasRead =>
        \A i \in 1..Len(response) :
            FencedAt(i) =>
                /\ extracted.exc = _extract_json_blob(response[i]).exc
                /\ extracted.value = _extract_json_blob(response[i]).value

\* An untagged fenced block that holds an object with a brace in a string,
\* prose after it, has been read.
C13_Witness ==
    /\ HasRead
    /\ Len(response) = 4
    /\ FencedAt(2)
    /\ response[1] = Fence
    /\ response[2] = "{\"k\": \"}\"}"
    /\ response[4] = " as shown "
    /\ extracted.exc = ""

\* C14: an object text followed by trailing prose gives that object, also
\* when a string value of the object holds a brace.
C14_TrailingProseIgnored ==
    (/\ HasRead
     /\ Len(response) >= 2
     /\ IsObjectText(response[1])
     /\ \A j \in 2..Len(response) : response[j] \in ProseParts)
        => ReturnsObjectOf(response[1])

\* C15: a returned value is a JSON object.
C15_ReturnsObjectOnly ==
    (HasRead /\ extracted.exc = "") => extracted.value.kind = "dict"

\* Texts the call decodes: the stripped text, the body of the greedy fence
\* match, the candidates.
Attempts ==
    LET text == strip(RawText)
        fence == fence_match(text, 1, TRUE)
    IN  {text} \cup (IF fence.found THEN {fence.group} ELSE {})
               \cup Range(candidates_of(IF fence.found THEN fence.group ELSE text))

\* Spans of the stripped text from an opening to a closing brace.
BraceSpans ==
    LET text == strip(RawText)
    IN  {SubSeq(text, i, j) : i \in {i \in 1..Len(text) : char_at(text, i) = "{"},
                               j \in {j \in 1..Len(text) : char_at(text, j) = "}"}}

\* C16: the call raises ValueError exactly when every attempt fails to
\* decode, and otherwise returns the complete decoding of the stripped text
\* or of one of its brace-to-brace spans.
C16_ValueOrValueError ==
    HasRead =>
        /\ extracted.exc \in {"", "ValueError"}
        /\ extracted.exc = "ValueError" <=> \A t \in Attempts : loads(t).exc # ""
        /\ extracted.exc = "" =>
              \E t \in {strip(RawText)} \cup BraceSpans :
                  loads(t) = Return(extracted.value)

\* A response whose only balanced span does not decode has been read.
C16_Witness ==
    /\ HasRead
    /\ response = <<" as shown ", "{oops}">>
    /\ extracted.exc = "ValueError"

-----------------------------------------------------------------------------
(* Properties of the rendering, stated on the canonical graphs rendered. *)

Plotted == pc = "plotted" /\ plantuml.exc = ""

\* Every node record has its id and every edge record its source and target.
MandatoryKeysPresent(g) ==
    /\ \A i \in 1..Len(g.nodes) : "id" \in DOMAIN g.nodes[i]
    /\ \A i \in 1..Len(g.edges) : {"source", "target"} \subseteq DOMAIN g.edges[i]

\* C17: generate_plantuml and generate_plantuml_diff raise only when a node
\* record lacks its id key or an edge record lacks its source or target key.
C17_RaisesOnlyOnMissingMandatoryKey ==
    /\ (pc = "plotted" /\ plantuml.exc # "") => ~MandatoryKeysPresent(new_graph.value)
    /\ (pc = "rendered" /\ diff.exc # "") =>
          ~(MandatoryKeysPresent(old_graph.value) /\ MandatoryKeysPresent(new_graph.value))

\* C18: the text rendered is a function of the graphs: any other call of
\* generate_plantuml on the same graph, and any other call of
\* generate_plantuml_diff on the same pair, returns the same text.
C18_RenderingIsAFunctionOfTheGraphs ==
    /\ Plotted =>
          generate_plantuml(new_graph.value, PageTitle, DefaultScale).value.text
              = plantuml.value.text
    /\ Rendered =>
          \A co \in Orderings(diff.value.common_keys),
             ao \in Orderings(diff.value.added_keys),
             ro \in Orderings(diff.value.removed_keys) :
              generate_plantuml_diff(old_graph.value, new_graph.value, DiffTitle,
                                     DefaultScale, co, ao, ro).value.text
                  = diff.value.text

\* A qualifier that is neither the empty string nor null.
Present(v) == v # Str("") /\ v # None

\* The label the claim composes from the relation and the three qualifiers
\* of a key.
LabelOfKey(k) ==
    join_space((IF Present(k[3]) THEN <<format(k[3])>> ELSE <<>>)
               \o (IF Present(k[4]) THEN <<"(" \o format(k[4]) \o ")">> ELSE <<>>)
               \o (IF Present(k[5]) THEN <<"[" \o format(k[5]) \o "]">> ELSE <<>>)
               \o (IF Present(k[6]) THEN <<"{" \o format(k[6]) \o "}">> ELSE <<>>))

\* The statement of the edge of key k with the given arrow; a prefix is
\* joined to the label as one more part.
StatementOfKey(k, arrow, prefix) ==
    LET label == strip(join_space((IF prefix # "" THEN <<prefix>> ELSE <<>>)
                                  \o (IF LabelOfKey(k) # "" THEN <<LabelOfKey(k)>> ELSE <<>>)))
    IN  sanitize_chars(k[1].s) \o " " \o arrow \o " " \o sanitize_chars(k[2].s)
        \o (IF label # "" THEN " : " \o label ELSE "")

Contains(line, sub) == \E i \in 1..Len(line) : startswith(line, sub, i)

NoPlaceholder(stmts) ==
    \A i \in 1..Len(stmts) :
        \A j \in 1..(Len(stmts[i]) - 1) : SubSeq(stmts[i], j, j + 1) \notin {"()", "[]", "{}"}

\* C19: the label of every edge statement is the relation, then the
\* condition in parentheses, the optionality in square brackets and the
\* frequency in braces, each only when non-empty; no statement holds an
\* empty placeholder.
C19_LabelComposition ==
    /\ Plotted =>
          LET es == new_graph.value.edges
              st == plantuml.value.statements
          IN  /\ Len(st) = Len(es)
              /\ \A i \in 1..Len(es) : st[i] = StatementOfKey(KeyOfEdge(es[i]), "-->", "")
              /\ NoPlaceholder(st)
    /\ Rendered =>
          LET d == diff.value
          IN  /\ Range(d.common) = {StatementOfKey(k, "-->", "") : k \in d.common_keys}
              /\ Range(d.added)
                   = {StatementOfKey(k, arrow_of("#008800", FALSE), "") : k \in d.added_keys}
              /\ Range(d.removed)
                   = {StatementOfKey(k, arrow_of("#BB0000", TRUE), "REMOVED: ")
                        : k \in d.removed_keys}
              /\ NoPlaceholder(d.common \o d.added \o d.removed)

\* An edge with a condition and without a frequency has been rendered.
C19_Witness ==
    /\ Plotted
    /\ \E i \in 1..Len(new_graph.value.edges) :
          /\ new_graph.value.edges[i].condition = Str("loans granted")
          /\ ~Present(new_graph.value.edges[i].frequency)
          /\ plantuml.value.statements[i]
               = "E1 --> E2 : reports (loans granted) [Conditional]"

\* The shape the claim gives a type.
ShapeOf(type) ==
    LET t == IF Present(type) THEN lower(type.s) ELSE "process"
    IN  IF t \in {"actor", "party", "role", "person"} THEN "actor"
        ELSE IF t \in {"system", "application", "repo", "trade_repository"} THEN "node"
        ELSE "component"

DeclarationOf(node) ==
    ShapeOf(node.type) \o " \"" \o format(node.label) \o "\" as " \o sanitize_chars(node.id.s)

\* Positions of a node list that hold the first record of their id.
FirstOfId(ns) == {i \in 1..Len(ns) : \A j \in 1..(i - 1) : ns[j].id # ns[i].id}

\* C20: each node is declared once, as actor, node or component by its
\* lower-cased type, a missing or empty type giving component, and
\* generate_plantuml and generate_plantuml_diff choose the shape alike.
C20_ShapeMapping ==
    /\ Plotted =>
          LET ns == new_graph.value.nodes
          IN  plantuml.value.declared = [i \in 1..Len(ns) |-> DeclarationOf(ns[i])]
    /\ Rendered =>
          LET ns == old_graph.value.nodes \o new_graph.value.nodes
              decl == diff.value.declared
          IN  /\ Len(decl) = Cardinality(FirstOfId(ns))
              /\ \A p \in FirstOfId(ns) :
                    decl[Cardinality({q \in FirstOfId(ns) : q <= p})] = DeclarationOf(ns[p])

\* A graph with a node of type Party, one of type system and one of empty
\* type has been rendered.
C20_Witness ==
    /\ Plotted
    /\ \E i, j, k \in 1..Len(plantuml.value.declared) :
          /\ new_graph.value.nodes[i].type = Str("Party")
          /\ plantuml.value.declared[i] = "actor \"XYZ Bank PLC\" as E1"
          /\ plantuml.value.declared[j] = "node \"Trade Repository\" as E2"
          /\ new_graph.value.nodes[k].type = Str("")
          /\ plantuml.value.declared[k] = "component \"Prime Customer List\" as E5"

-----------------------------------------------------------------------------
(* Properties of the diff styling. *)

\* The arrow of a statement: the text between its first two blanks.
ArrowOf(line) ==
    LET first == Min({i \in 1..Len(line) : char_at(line, i) = " "})
        second == Min({i \in (first + 1)..Len(line) : char_at(line, i) = " "})
    IN  SubSeq(line, first + 1, second - 1)

\* C21: a removed key's statement is built from the old graph's record with
\* the REMOVED: prefix, the dotted arrow and colour #BB0000; an added key's
\* from the new graph's record with colour #008800, a solid arrow and no
\* prefix; a common key's without colour or prefix; the arrow alone tells
\* the class of a statement.
C21_DiffStyling ==
    Rendered =>
        LET d == diff.value
            oldKeys == {KeyOfEdge(e) : e \in Range(old_graph.value.edges)}
            newKeys == {KeyOfEdge(e) : e \in Range(new_graph.value.edges)}
        IN  /\ Range(d.removed)
                 = {StatementOfKey(k, "-[#BB0000].>", "REMOVED: ") : k \in oldKeys \ newKeys}
            /\ Range(d.added)
                 = {StatementOfKey(k, "-[#008800]->", "") : k \in newKeys \ oldKeys}
            /\ Range(d.common)
                 = {StatementOfKey(k, "-->", "") : k \in newKeys \cap oldKeys}
            /\ \A i \in 1..Len(d.removed) :
                  ArrowOf(d.removed[i]) = "-[#BB0000].>" /\ Contains(d.removed[i], " : REMOVED:")
            /\ \A i \in 1..Len(d.added) :
                  ArrowOf(d.added[i]) = "-[#008800]->" /\ ~Contains(d.added[i], "REMOVED:")
            /\ \A i \in 1..Len(d.common) :
                  ArrowOf(d.common[i]) = "-->" /\ ~Contains(d.common[i], "REMOVED:")

\* A diff with a removed, an added and a common statement.
C21_Witness ==
    /\ Rendered
    /\ diff.value.common # <<>>
    /\ diff.value.added # <<>>
    /\ \E i \in 1..Len(diff.value.removed) :
          diff.value.removed[i]
            = "E2 -[#BB0000].> E1 : REMOVED:  reports (loans granted) [Conditional] {weekly}"

-----------------------------------------------------------------------------
(* Properties of sanitize_id, stated on the identifier sanitized. *)

\* Characters the claim keeps: letters, digits, underscore, hyphen.
KeptChars == Range(UpperChars) \cup Range(LowerChars) \cup Digits \cup {"_", "-"}

\* C22: sanitize_id keeps a letter, digit, underscore or hyphen and writes
\* an underscore for any other character, each character on its own; the
\* result has the length of the input, holds kept characters only, and
\* sanitizing it again changes nothing.
C22_SanitizeIdPerCharacter ==
    /\ clean # <<>> =>
          /\ clean[1].exc = ""
          /\ Len(clean[1].value) = Len(raw_id)
          /\ \A i \in 1..Len(raw_id) :
                char_at(clean[1].value, i)
                  = IF char_at(raw_id, i) \in KeptChars THEN char_at(raw_id, i) ELSE "_"
    /\ Len(clean) = 2 => clean[2] = clean[1]

\* An identifier with a kept and two replaced characters, sanitized twice.
C22_Witness ==
    /\ raw_id = "a /"
    /\ Len(clean) = 2
    /\ clean[2].value = "a__"

-----------------------------------------------------------------------------
(* Relationships between ids that no entity declares.                      *)

\* Every entity of payload p carries the three keys the entity loop reads.
EntitiesComplete(p) ==
    \A i \in 1..Len(entities_of(p)) :
        {"id", "name", "type"} \subseteq DOMAIN entities_of(p)[i]

\* The ids that relationships of p mention and no entity of p declares.
DanglingIds(p) ==
    {PairOf(relationships_of(p)[i])[j] :
         i \in 1..Len(relationships_of(p)), j \in 1..2} \ EntityIds(p)

\* What C23 asks of the result G of parsing payload p.
AcceptsDangling(p, G) ==
    EntitiesComplete(p) =>
        /\ G.exc = ""
        /\ \A i \in 1..Len(relationships_of(p)) :
              /\ PairOf(relationships_of(p)[i]) \in EdgeSet(G.value)
              /\ PairOf(relationships_of(p)[i])[1] \in NodeSet(G.value)
              /\ PairOf(relationships_of(p)[i])[2] \in NodeSet(G.value)
        /\ DanglingIds(p) \subseteq Range(G.value.order)

(* C23: parse_graph_data does not reject a relationship whose subject_id   *)
(* or object_id is the id of no entity: no error is raised, the edge is    *)
(* in the graph and the missing id is one of its nodes.                    *)
C23_DanglingEndpointsAccepted ==
    pc = "parsed" =>
        /\ AcceptsDangling(old_json, G_old)
        /\ AcceptsDangling(new_json, G_new)

\* A payload with entities has a relationship to an id none of them has.
C23_Witness ==
    /\ pc = "parsed" /\ G_new.exc = ""
    /\ entities_of(new_json) # <<>>
    /\ DanglingIds(new_json) # {}
    /\ \E e \in EdgeSet(G_new.value) : e[2] \in DanglingIds(new_json)

-----------------------------------------------------------------------------
(* The summary request.                                                    *)

(* C24: get_summary_with_context, with a context or without one, calls     *)
(* call_claude exactly once and returns what that call gave, unchanged.    *)
C24_OneCallReturnedUnchanged ==
    pc = "summarized" =>
        /\ Len(calls) = 1
        /\ summary.exc = calls[1].reply.exc
        /\ summary.value = calls[1].reply.value

\* A summary was asked for with a context and the model answered.
C24_Witness ==
    /\ pc = "summarized"
    /\ request.context \notin {None, Str("")}
    /\ summary = Return("Mocked LLM Response")
    /\ Len(calls) = 1

-----------------------------------------------------------------------------
(* The brace scan.                                                         *)

\* The text the scan walks: the fenced body when a fence was found, the
\* stripped response otherwise.
WorkingText ==
    LET text == strip(RawText)
        fence == fence_match(text, 1, TRUE)
    IN  IF fence.found THEN fence.group ELSE text

\* Opening braces less closing braces among the characters i..j of s.
RECURSIVE DepthOver(_, _, _)
DepthOver(s, i, j) ==
    IF i > j THEN 0
    ELSE (IF char_at(s, j) = "{" THEN 1 ELSE IF char_at(s, j) = "}" THEN -1 ELSE 0)
         + DepthOver(s, i, j - 1)

\* The ends of the balanced spans that start at the brace at i.
BalancedEnds(s, i) == {j \in i..Len(s) : DepthOver(s, i, j) = 0}

\* The spans the claim describes, from position from on: every opening brace
\* outside the spans found so far that has a balancing closing brace starts
\* the shortest balanced span, and the walk goes on after that span.
RECURSIVE ClaimedSpans(_, _)
ClaimedSpans(s, from) ==
    LET starts == {i \in from..Len(s) : char_at(s, i) = "{" /\ BalancedEnds(s, i) # {}}
    IN  IF starts = {} THEN <<>>
        ELSE LET i == Min(starts)
                 j == Min(BalancedEnds(s, i))
             IN  <<SubSeq(s, i, j)>> \o ClaimedSpans(s, j + 1)

ScanReached == HasRead /\ extracted.step = "candidates"

(* C25: the brace scan records, left to right, the shortest balanced span  *)
(* of every opening brace that lies outside the earlier spans and has a    *)
(* balancing closing brace.                                                *)
C25_EveryBalancedBraceStartsACandidate ==
    ScanReached =>
        brace_scan(WorkingText, find(WorkingText, "{", 1)) = ClaimedSpans(WorkingText, 1)

-----------------------------------------------------------------------------
(* The annotation of an edge.                                              *)

LinePrefixes ==
    <<"Verb: ", "Optionality: ", "Condition: ", "Property: ", "Thresholds: ", "Frequency: ">>

\* The value of a payload field as text, the empty string for a missing key.
\* A number is written in decimal and null as Python writes it.
ShownField(rel, k) ==
    IF k \notin DOMAIN rel THEN ""
    ELSE IF rel[k].t = "str" THEN rel[k].s
    ELSE IF rel[k].t = "int" THEN ToString(rel[k].n)
    ELSE "None"

\* Line n of the annotation of rel, and lines n..6 separated by newlines.
AnnotationLine(rel, n) == LinePrefixes[n] \o ShownField(rel, FieldKeys[n])

RECURSIVE AnnotationFrom(_, _)
AnnotationFrom(rel, n) ==
    IF n = Len(LinePrefixes) THEN AnnotationLine(rel, n)
    ELSE AnnotationLine(rel, n) \o "\n" \o AnnotationFrom(rel, n + 1)

\* The relationships of p that are the last listed for their pair.
LastForPair(p) ==
    {i \in 1..Len(relationships_of(p)) :
        \A j \in (i + 1)..Len(relationships_of(p)) :
            PairOf(relationships_of(p)[j]) # PairOf(relationships_of(p)[i])}

\* What C26 asks of the graph G parsed from payload p.
SixLineAnnotations(p, G) ==
    \A i \in LastForPair(p) :
        LET rel == relationships_of(p)[i]
            data == G.edge[PairOf(rel)]
        IN  /\ data.label = (IF K_verb \in DOMAIN rel THEN rel[K_verb] ELSE Str(""))
            /\ data.title = Str(AnnotationFrom(rel, 1))

(* C26: parse_graph_data gives the edge of a relationship the verb as its  *)
(* label and, as its annotation, six lines separated by newlines: Verb,    *)
(* Optionality, Condition, Property, Thresholds, Frequency, each prefix    *)
(* followed by the field's value, the empty string when the key is         *)
(* missing; all six lines are always there.                                *)
C26_SixLineAnnotation ==
    pc = "parsed" =>
        /\ G_old.exc = "" => SixLineAnnotations(old_json, G_old.value)
        /\ G_new.exc = "" => SixLineAnnotations(new_json, G_new.value)

\* A relationship without its frequency was parsed: its annotation ends
\* with the bare prefix of the sixth line.
C26_Witness ==
    /\ pc = "parsed" /\ G_new.exc = ""
    /\ \E i \in LastForPair(new_json) :
          LET rel == relationships_of(new_json)[i]
              title == G_new.value.edge[PairOf(rel)].title.s
          IN  /\ K_frequency \notin DOMAIN rel
              /\ K_verb \in DOMAIN rel
              /\ SubSeq(title, Len(title) - 11, Len(title)) = "\nFrequency: "

-----------------------------------------------------------------------------
(* The two forms of one payload.                                           *)

\* A payload as GraphModel and CanonicalProjector take it: a mapping whose
\* entities carry id, name and type.
MeetsInputContract(p) == p.kind = "dict" /\ EntitiesComplete(p)

CanonicalPairs(g) == {<<g.edges[i].source, g.edges[i].target>> : i \in 1..Len(g.edges)}
CanonicalIds(g) == {g.nodes[i].id : i \in 1..Len(g.nodes)}
Endpoints(p) ==
    {PairOf(relationships_of(p)[i])[j] : i \in 1..Len(relationships_of(p)), j \in 1..2}

\* What C27 asks of the canonical graph g and the parsed graph G of payload p.
FormsAgree(p, g, G) ==
    MeetsInputContract(p) =>
        /\ g.exc = "" /\ G.exc = ""
        /\ Len(g.value.edges) = Len(relationships_of(p))
        /\ \A i \in 1..Len(relationships_of(p)) :
              /\ <<g.value.edges[i].source, g.value.edges[i].target>>
                    = PairOf(relationships_of(p)[i])
              /\ g.value.edges[i].relation = Field(relationships_of(p)[i], K_verb)
              /\ g.value.edges[i].condition = Field(relationships_of(p)[i], K_condition)
              /\ g.value.edges[i].optionality = Field(relationships_of(p)[i], K_optionality)
              /\ g.value.edges[i].frequency = Field(relationships_of(p)[i], K_frequency)
        /\ CanonicalPairs(g.value) = EdgeSet(G.value)
        /\ Len(g.value.nodes) = Len(entities_of(p))
        /\ \A i \in 1..Len(entities_of(p)) : g.value.nodes[i].id = entities_of(p)[i]["id"]
        /\ CanonicalIds(g.value) = EntityIds(p)
        /\ NodeSet(G.value) = CanonicalIds(g.value) \cup Endpoints(p)

Projected == pc = "projected"

-----------------------------------------------------------------------------
(* The node declarations of the diff.                                      *)

IdsOf(ns) == {ns[i].id : i \in 1..Len(ns)}

\* Positions of the new node list whose id the old list lacks, first
\* records only.
NewOnly(olds, news) == {i \in FirstOfId(news) : news[i].id \notin IdsOf(olds)}

\* The place of position p among the positions ps, counted from 1.
RankIn(ps, p) == Cardinality({q \in ps : q <= p})

(* C28: generate_plantuml_diff declares every node id of the old or the    *)
(* new node list once: the nodes of the old graph first, in their order,   *)
(* then the nodes only the new graph has; an id both graphs have is        *)
(* declared with the label and type of the old graph's record.             *)
C28_OldRecordDeclared ==
    Rendered =>
        LET olds == old_graph.value.nodes
            news == new_graph.value.nodes
            decl == diff.value.declared
        IN  /\ Len(decl) = Cardinality(IdsOf(olds) \cup IdsOf(news))
            /\ \A p \in FirstOfId(olds) :
                  decl[RankIn(FirstOfId(olds), p)] = DeclarationOf(olds[p])
            /\ \A q \in NewOnly(olds, news) :
                  decl[Cardinality(FirstOfId(olds)) + RankIn(NewOnly(olds, news), q)]
                     = DeclarationOf(news[q])

\* E1 was renamed and retyped; the diff declares it as the old graph has it
\* and declares a node of the new graph after it.
C28_Witness ==
    /\ Rendered
    /\ \E p \in 1..Len(old_graph.value.nodes), q \in 1..Len(new_graph.value.nodes) :
          /\ old_graph.value.nodes[p].id = new_graph.value.nodes[q].id
          /\ old_graph.value.nodes[p].label # new_graph.value.nodes[q].label
          /\ old_graph.value.nodes[p].type # new_graph.value.nodes[q].type
    /\ NewOnly(old_graph.value.nodes, new_graph.value.nodes) # {}
    /\ diff.value.declared[1] = "component \"XYZ Bank (LCB)\" as E1"

-----------------------------------------------------------------------------
(* Edges at added nodes, and node attributes, in the comparison.           *)

(* C29: every edge of G_new with an endpoint among the added_nodes that    *)
(* compare_graphs returns is among the changed_edges it returns; an edge   *)
(* of G_new that is not reported has both endpoints among G_old's nodes.   *)
C29_EdgesAtAddedNodesAreChanged ==
    Compared =>
        /\ \A e \in EdgeSet(G_new.value) :
              (e[1] \in result.added_nodes \/ e[2] \in result.added_nodes)
              => e \in Range(result.changed_edges)
        /\ \A e \in EdgeSet(G_new.value) \ Range(result.changed_edges) :
              e[1] \in NodeSet(G_old.value) /\ e[2] \in NodeSet(G_old.value)

\* G_new has an edge from a node G_old has to an added node, and an edge
\* that is not reported.
C29_Witness ==
    /\ Compared
    /\ \E e \in EdgeSet(G_new.value) :
          e[1] \notin result.added_nodes /\ e[2] \in result.added_nodes
    /\ EdgeSet(G_new.value) \ Range(result.changed_edges) # {}

\* Attributes a node may carry instead of its own.
OtherAttributes ==
    {EmptyDict,
     [label |-> Str("Renamed"), group |-> Str("Party")],
     [label |-> Str("XYZ Bank (LCB)"), group |-> Str("system")]}

\* G with the attributes of every node replaced.
Relabelled(G, attrs) == [G EXCEPT !.node = [n \in DOMAIN G.node |-> attrs]]

\* The payloads list the same entity ids and the same relationships.
OnlyEntitiesRevised ==
    /\ relationships_of(old_json) = relationships_of(new_json)
    /\ EntityIds(old_json) = EntityIds(new_json)

(* C30: the result of compare_graphs does not depend on node attributes:   *)
(* graphs with the nodes and edges of G_new and other node labels or       *)
(* groups give the same result against G_old; renaming or retyping an      *)
(* entity with the relationships untouched gives no changed edge, no       *)
(* added node and no removed node.                                         *)
C30_NodeAttributesIgnored ==
    Compared =>
        /\ \A attrs \in OtherAttributes :
              /\ compare_graphs(G_old.value, Relabelled(G_new.value, attrs)) = result
              /\ compare_graphs(Relabelled(G_old.value, attrs), G_new.value) = result
        /\ OnlyEntitiesRevised =>
              /\ result.changed_edges = <<>>
              /\ result.added_nodes = {}
              /\ result.removed_nodes = {}

\* An entity with relationships was renamed and retyped and nothing else
\* was revised.
C30_Witness ==
    /\ Compared /\ OnlyEntitiesRevised
    /\ EdgeSet(G_new.value) # {}
    /\ \E n \in NodeSet(G_old.value) \cap NodeSet(G_new.value) :
          /\ \E e \in EdgeSet(G_new.value) : e[1] = n
          /\ G_old.value.node[n].label # G_new.value.node[n].label
          /\ G_old.value.node[n].group # G_new.value.node[n].group
    /\ result = NoResult

=============================================================================
